---- MODULE Spec2Model ----
(***************************************************************************)
(* Progressive path tracer (Donut / NVRHI sample).                         *)
(*                                                                         *)
(* Two builds of the renderer live in the repository and both are          *)
(* modelled; the variable `variant` says which one a behaviour is about:   *)
(*   "mitsuba_rt" : host src/unnamed/part_006, shader src/unnamed/part_001 *)
(*   "rt_scene"   : host src/src/rt_scene/rt_scene.cpp,                    *)
(*                  shader src/src/rt_scene/rt_scene.hlsl                  *)
(*                                                                         *)
(* Floating point values are extended rationals: a finite value is an      *)
(* exact fraction n/d in lowest terms, and NaN, +Inf and -Inf follow the   *)
(* IEEE-754 rules for arithmetic and comparison.  Rounding of finite       *)
(* results is not modelled.                                                *)
(***************************************************************************)
EXTENDS Integers, Sequences, FiniteSets, TLC

VARIABLES
    variant,              \* which build runs
    m_FrameIndex,         \* host: RayTracedScene::m_FrameIndex
    m_MouseDown,          \* host: right mouse button held
    m_Keys,               \* host: the m_KeyW .. m_KeyE flags that are set
    m_RenderTarget,       \* host: TRUE when the render/accumulation textures exist
    m_Exposure,           \* host: m_Exposure (UI slider)
    m_MaxBounces,         \* host: m_CameraConstants.maxBounces
    Camera,               \* GPU constant buffer written by Render
    AccumulationTexture,  \* GPU: per pixel [color, sampleCount]
    OutputTexture,        \* GPU: per pixel display value
    thread,               \* GPU: per pixel RayGen invocation of the frame in flight
    sumRadiance,          \* observer: per pixel sum and number of the radiances since frameIndex 0
    path,                 \* one RayGen invocation's path loop (SpecPath)
    call,                 \* pure-function harness: the call made (SpecFn)
    ret                   \* pure-function harness: what it returned

vars == << variant, m_FrameIndex, m_MouseDown, m_Keys, m_RenderTarget, m_Exposure,
           m_MaxBounces, Camera, AccumulationTexture, OutputTexture, thread,
           sumRadiance, path, call, ret >>

hostVars == << m_FrameIndex, m_MouseDown, m_Keys, m_RenderTarget, m_Exposure, m_MaxBounces >>
gpuVars == << Camera, AccumulationTexture, OutputTexture, thread, sumRadiance >>
fnVars == << call, ret >>

(***************************************************************************)
(* Bounds of the model.                                                    *)
(***************************************************************************)
NumPixels == 2
MaxFrames == 3
MaxKeysDown == 1
MaxBouncesBound == 6
UMax == 4

Pixels == 1 .. NumPixels
Variants == { "mitsuba_rt", "rt_scene" }
Keys == { "W", "S", "A", "D", "Q", "E" }

(***************************************************************************)
(* float: extended rationals.                                              *)
(***************************************************************************)
RECURSIVE GCD(_, _)
GCD(a, b) == IF b = 0 THEN a ELSE GCD(b, a % b)

Abs(x) == IF x < 0 THEN -x ELSE x
Sign(x) == IF x < 0 THEN -1 ELSE IF x > 0 THEN 1 ELSE 0

NaN == [ k |-> "nan", n |-> 0, d |-> 1 ]
PInf == [ k |-> "inf", n |-> 1, d |-> 1 ]
NInf == [ k |-> "inf", n |-> -1, d |-> 1 ]

\* the finite value n/d (d # 0), in lowest terms with a positive denominator
Q(n, d) ==
    LET g == GCD(Abs(n), Abs(d))
        s == IF d < 0 THEN -1 ELSE 1
    IN  [ k |-> "num", n |-> (s * n) \div g, d |-> (s * d) \div g ]

F(n) == Q(n, 1)

isnan(a) == a.k = "nan"
isinf(a) == a.k = "inf"
isfinite(a) == a.k = "num"

FNeg(a) == IF isnan(a) THEN NaN ELSE [ a EXCEPT !.n = -a.n ]

FAdd(a, b) ==
    IF isnan(a) \/ isnan(b) THEN NaN
    ELSE IF isinf(a) THEN (IF isinf(b) /\ b.n # a.n THEN NaN ELSE a)
    ELSE IF isinf(b) THEN b
    ELSE LET g == GCD(a.d, b.d)
         IN  Q(a.n * (b.d \div g) + b.n * (a.d \div g), (a.d \div g) * b.d)

FSub(a, b) == FAdd(a, FNeg(b))

FMul(a, b) ==
    IF isnan(a) \/ isnan(b) THEN NaN
    ELSE IF isinf(a) \/ isinf(b)
         THEN (IF a.n = 0 \/ b.n = 0 THEN NaN
               ELSE IF Sign(a.n) * Sign(b.n) > 0 THEN PInf ELSE NInf)
    ELSE LET g1 == GCD(Abs(a.n), b.d)
             g2 == GCD(Abs(b.n), a.d)
         IN  Q((a.n \div g1) * (b.n \div g2), (a.d \div g2) * (b.d \div g1))

FDiv(a, b) ==
    IF isnan(a) \/ isnan(b) THEN NaN
    ELSE IF isinf(a)
         THEN (IF isinf(b) THEN NaN
               ELSE IF Sign(a.n) * (IF b.n < 0 THEN -1 ELSE 1) > 0 THEN PInf ELSE NInf)
    ELSE IF isinf(b) THEN F(0)
    ELSE IF b.n = 0
         THEN (IF a.n = 0 THEN NaN ELSE IF a.n > 0 THEN PInf ELSE NInf)
    ELSE LET g1 == GCD(Abs(a.n), Abs(b.n))
             g2 == GCD(a.d, b.d)
         IN  Q((a.n \div g1) * (b.d \div g2), (a.d \div g2) * (b.n \div g1))

\* ordered comparisons are false as soon as an operand is NaN
FLt(a, b) ==
    /\ ~isnan(a) /\ ~isnan(b)
    /\ IF isinf(a) THEN a.n < 0 /\ ~(isinf(b) /\ b.n < 0)
       ELSE IF isinf(b) THEN b.n > 0
       ELSE LET g == GCD(a.d, b.d)
            IN  a.n * (b.d \div g) < b.n * (a.d \div g)

FEq(a, b) == ~isnan(a) /\ ~isnan(b) /\ a = b
FLe(a, b) == FLt(a, b) \/ FEq(a, b)
FGt(a, b) == FLt(b, a)
FGe(a, b) == FLe(b, a)

\* HLSL max / min return the other operand when one is NaN
FMax(a, b) == IF isnan(a) THEN b ELSE IF isnan(b) THEN a ELSE IF FLt(a, b) THEN b ELSE a
FMin(a, b) == IF isnan(a) THEN b ELSE IF isnan(b) THEN a ELSE IF FLt(b, a) THEN b ELSE a
FClamp(x, lo, hi) == FMin(FMax(x, lo), hi)
FAbs(a) == IF isnan(a) THEN NaN ELSE [ a EXCEPT !.n = Abs(a.n) ]

\* float3, component-wise
V3(x, y, z) == << x, y, z >>
Splat(x) == << x, x, x >>
VAdd(a, b) == [ i \in 1 .. 3 |-> FAdd(a[i], b[i]) ]
VSub(a, b) == [ i \in 1 .. 3 |-> FSub(a[i], b[i]) ]
VMul(a, b) == [ i \in 1 .. 3 |-> FMul(a[i], b[i]) ]
VScale(a, s) == [ i \in 1 .. 3 |-> FMul(a[i], s) ]
VDivS(a, s) == [ i \in 1 .. 3 |-> FDiv(a[i], s) ]
VClamp(a, lo, hi) == [ i \in 1 .. 3 |-> FClamp(a[i], lo, hi) ]
AnyNan(a) == \E i \in 1 .. 3 : isnan(a[i])
AnyInf(a) == \E i \in 1 .. 3 : isinf(a[i])
MaxChannel(a) == FMax(a[1], FMax(a[2], a[3]))

EPSILON == Q(1, 1000000)

(***************************************************************************)
(* Scene tables and the inputs of one loop iteration.                      *)
(***************************************************************************)
Zero3 == Splat(F(0))
One3 == Splat(F(1))

\* GPUInstance records: a plain surface, an area light, and a surface that
\* stores an emission value but is not flagged as an emitter
Instances ==
    << [ materialIndex |-> 0, isEmitter |-> 0, emission |-> Zero3 ],
       [ materialIndex |-> 0, isEmitter |-> 1, emission |-> Splat(Q(1, 5)) ],
       [ materialIndex |-> 1, isEmitter |-> 0, emission |-> Splat(F(5)) ] >>

InstanceIds == 1 .. Len(Instances)

\* RandomFloat: rng.state / 4294967295.0f, on a grid of UMax + 1 equally likely values
URange == { Q(i, UMax) : i \in 0 .. UMax }

\* radiance seen by a ray that leaves the scene: the two ends of the
\* procedural sky gradient (already scaled by 0.3) and two environment texels
EnvColors ==
    { V3(Q(3, 20), Q(21, 100), Q(3, 10)), V3(Q(6, 25), Q(27, 100), Q(3, 10)),
      Splat(Q(2, 5)), Splat(Q(4, 5)) }

\* what Material_Sample hands back to the integrator, with N.wi of the
\* sampled direction: weight, pdf, isRefracted, and for rt_scene the value
\* of EvaluateBRDF for the sampled pair
Smp(w, b, pdf, refr, ndotl) ==
    [ weight |-> w, brdf |-> b, pdf |-> pdf, isRefracted |-> refr, NdotL |-> ndotl ]

SampleOutcomes ==
    { Smp(Splat(Q(1, 2)), Splat(Q(1, 4)), Q(1, 2), FALSE, F(1)),       \* diffuse, grey
      Smp(V3(F(1), Q(1, 2), F(0)), V3(Q(1, 2), Q(1, 4), F(0)), Q(1, 2), FALSE, F(1)), \* diffuse, coloured
      Smp(Zero3, Zero3, F(1), FALSE, F(1)),                          \* black surface / delta lobe evaluated
      Smp(Zero3, Zero3, F(0), FALSE, F(0)),                          \* rejected sample, pdf = 0
      Smp(One3, One3, F(1), FALSE, Q(-1, 2)),                        \* reflected below the surface
      Smp(Splat(F(2)), Splat(F(2)), F(1), TRUE, Q(-1, 2)),           \* refraction, weight eta^2
      Smp(Splat(F(150)), Splat(F(2)), F(1), FALSE, F(1)),            \* grazing microfacet sample
      Smp(Splat(NaN), Splat(NaN), F(1), FALSE, F(1)) }               \* degenerate material math

Ev(hit, env, inst, s, u) ==
    [ hit |-> hit, env |-> env, instance |-> inst, s |-> s, u |-> u ]

NoSample == Smp(Zero3, Zero3, F(0), FALSE, F(0))

\* the part of an event each step of the iteration looks at
TraceEvents ==
    { Ev(FALSE, c, 1, NoSample, F(0)) : c \in EnvColors }
        \cup { Ev(TRUE, Zero3, i, NoSample, F(0)) : i \in InstanceIds }
ShadeEvents == { Ev(TRUE, Zero3, 1, s, F(0)) : s \in SampleOutcomes }
RouletteEvents == { Ev(TRUE, Zero3, 1, NoSample, u) : u \in URange }

(***************************************************************************)
(* RayGen: one iteration of the bounce loop, in three parts.               *)
(***************************************************************************)
\* ClosestHit storing the emission whatever the emitter flag says
PayloadEmissionIgnoringFlag(i) == Instances[i].emission

\* ClosestHit: payload.emission
PayloadEmission(i) ==
    IF Instances[i].isEmitter # 0 THEN Instances[i].emission ELSE Zero3

PathBegin(maxBounces) ==
    [ pc |-> IF 0 < maxBounces THEN "trace" ELSE "finish",
      bounce |-> 0, maxBounces |-> maxBounces,
      throughput |-> One3, radiance |-> Zero3, nTraced |-> 0 ]

\* TraceRay, the miss branch and the emission of the surface hit
TraceStep(s, e) ==
    IF ~e.hit
    THEN [ s EXCEPT !.nTraced = @ + 1,
                    !.radiance = VAdd(@, VMul(s.throughput, e.env)),
                    !.pc = "finish" ]
    ELSE [ s EXCEPT !.nTraced = @ + 1,
                    !.radiance = VAdd(@, VMul(s.throughput, PayloadEmission(e.instance))),
                    !.pc = "shade" ]

\* a clamp of each channel on its own
FireflyClampPerChannel(t) == [ i \in 1 .. 3 |-> FMin(t[i], F(100)) ]

\* the firefly clamp of the throughput
FireflyClamp(t) ==
    LET maxThroughput == MaxChannel(t)
    IN  IF FGt(maxThroughput, F(100)) THEN VScale(t, FDiv(F(100), maxThroughput)) ELSE t

\* sample the material and update the throughput (mitsuba_rt)
ShadeStepMitsuba(s, e) ==
    IF FLt(e.s.pdf, EPSILON) \/ (~e.s.isRefracted /\ FLe(e.s.NdotL, F(0)))
    THEN [ s EXCEPT !.pc = "finish" ]
    ELSE LET t == VMul(s.throughput, e.s.weight)
         IN  IF AnyNan(t) \/ AnyInf(t)
             THEN [ s EXCEPT !.throughput = t, !.pc = "finish" ]
             ELSE [ s EXCEPT !.throughput = FireflyClamp(t), !.pc = "roulette" ]

\* sample the material and update the throughput (rt_scene)
ShadeStepRtScene(s, e) ==
    IF FLt(e.s.pdf, EPSILON) \/ FLe(e.s.NdotL, F(0))
    THEN [ s EXCEPT !.pc = "finish" ]
    ELSE [ s EXCEPT !.throughput =
                        VMul(@, VDivS(VScale(e.s.brdf, FAbs(e.s.NdotL)), e.s.pdf)),
                    !.pc = "roulette" ]

ShadeStep(v, s, e) ==
    IF v = "mitsuba_rt" THEN ShadeStepMitsuba(s, e) ELSE ShadeStepRtScene(s, e)

\* the roulette test: TRUE when the path goes on
RouletteSurvives(v, p, u) ==
    IF v = "mitsuba_rt" THEN ~(FLt(p, EPSILON) \/ FGt(u, p)) ELSE ~FGt(u, p)

\* the loop's increment with an inclusive bound
NextBounceInclusive(s) ==
    [ s EXCEPT !.bounce = @ + 1,
               !.pc = IF s.bounce + 1 <= s.maxBounces THEN "trace" ELSE "finish" ]

\* the loop's increment and condition
NextBounce(s) ==
    [ s EXCEPT !.bounce = @ + 1,
               !.pc = IF s.bounce + 1 < s.maxBounces THEN "trace" ELSE "finish" ]

\* Russian roulette and the set-up of the next ray
RouletteStep(v, s, e) ==
    IF s.bounce > 3
    THEN LET p == MaxChannel(s.throughput)
         IN  IF RouletteSurvives(v, p, e.u)
             THEN NextBounce([ s EXCEPT !.throughput = VDivS(@, p) ])
             ELSE [ s EXCEPT !.pc = "finish" ]
    ELSE NextBounce(s)

\* what leaves the loop: mitsuba_rt replaces NaN/Inf by zero and clamps
FinalRadiance(v, radiance) ==
    IF v = "mitsuba_rt"
    THEN VClamp(IF AnyNan(radiance) \/ AnyInf(radiance) THEN Zero3 ELSE radiance,
                F(0), F(1000))
    ELSE radiance

\* the whole loop on a script of events, used cyclically
RECURSIVE RunPath(_, _, _)
RunPath(v, s, script) ==
    LET e == script[(s.bounce % Len(script)) + 1]
    IN  IF s.pc = "trace" THEN RunPath(v, TraceStep(s, e), script)
        ELSE IF s.pc = "shade" THEN RunPath(v, ShadeStep(v, s, e), script)
        ELSE IF s.pc = "roulette" THEN RunPath(v, RouletteStep(v, s, e), script)
        ELSE s

TracePath(v, maxBounces, script) ==
    FinalRadiance(v, RunPath(v, PathBegin(maxBounces), script).radiance)

(***************************************************************************)
(* Initial values.                                                         *)
(***************************************************************************)
DefaultMaxBounces(v) == IF v = "mitsuba_rt" THEN 16 ELSE 8
DefaultExposure == Q(15, 1000)

Cell(c, n) == [ color |-> c, sampleCount |-> n ]
NoCell == Cell(Zero3, F(0))
IdleThread == [ pc |-> "idle", primaryRays |-> 0, radiance |-> Zero3, prevColor |-> Zero3,
                sampleCount |-> F(0) ]
NoSum == [ sum |-> Zero3, k |-> 0 ]
NoOutput == [ curve |-> "none", exposure |-> F(0), color |-> Zero3 ]
NoPath == [ pc |-> "none", bounce |-> 0, maxBounces |-> 0,
            throughput |-> One3, radiance |-> Zero3, nTraced |-> 0 ]
NoCall == [ fn |-> "none" ]

HostInit ==
    /\ m_FrameIndex = 0
    /\ m_MouseDown = FALSE
    /\ m_Keys = {}
    /\ m_RenderTarget = FALSE
    /\ m_Exposure = DefaultExposure
    /\ m_MaxBounces = DefaultMaxBounces(variant)

GpuInit ==
    /\ Camera = [ frameIndex |-> 0, maxBounces |-> 0, samplesPerPixel |-> 0 ]
    /\ AccumulationTexture = [ px \in Pixels |-> NoCell ]
    /\ OutputTexture = [ px \in Pixels |-> NoOutput ]
    /\ thread = [ px \in Pixels |-> IdleThread ]
    /\ sumRadiance = [ px \in Pixels |-> NoSum ]

FnInit == call = NoCall /\ ret = NoCall

(***************************************************************************)
(* SpecPath: the bounce loop of one RayGen invocation, step by step.        *)
(***************************************************************************)
InitPath ==
    /\ variant \in Variants
    /\ HostInit /\ GpuInit /\ FnInit
    /\ \E mb \in 1 .. MaxBouncesBound : path = PathBegin(mb)

PathTrace ==
    /\ path.pc = "trace"
    /\ \E e \in TraceEvents : path' = TraceStep(path, e)
    /\ UNCHANGED << variant, hostVars, gpuVars, fnVars >>

PathShade ==
    /\ path.pc = "shade"
    /\ \E e \in ShadeEvents : path' = ShadeStep(variant, path, e)
    /\ UNCHANGED << variant, hostVars, gpuVars, fnVars >>

PathRoulette ==
    /\ path.pc = "roulette"
    /\ \E e \in RouletteEvents : path' = RouletteStep(variant, path, e)
    /\ UNCHANGED << variant, hostVars, gpuVars, fnVars >>

\* the loop is left: the radiance is sanitised and handed to the accumulation
PathFinish ==
    /\ path.pc = "finish"
    /\ path' = [ path EXCEPT !.pc = "accumulate",
                             !.radiance = FinalRadiance(variant, path.radiance) ]
    /\ UNCHANGED << variant, hostVars, gpuVars, fnVars >>

\* the next invocation starts
PathRestart ==
    /\ path.pc = "accumulate"
    /\ \E mb \in 1 .. MaxBouncesBound : path' = PathBegin(mb)
    /\ UNCHANGED << variant, hostVars, gpuVars, fnVars >>

NextPath == PathTrace \/ PathShade \/ PathRoulette \/ PathFinish \/ PathRestart

SpecPath == InitPath /\ [][NextPath]_vars

(***************************************************************************)
(* RayGen: accumulation and display.                                       *)
(***************************************************************************)
\* the incremental mean with the old count as divisor
RunningMeanOldCount(radiance, prevColor, sampleCount) ==
    Cell(VAdd(prevColor, VDivS(VSub(radiance, prevColor), sampleCount)),
         FAdd(sampleCount, F(1)))

\* the incremental mean
RunningMean(radiance, prevColor, sampleCount) ==
    Cell(VAdd(prevColor, VDivS(VSub(radiance, prevColor), FAdd(sampleCount, F(1)))),
         FAdd(sampleCount, F(1)))

AccumulateMitsuba(frameIndex, radiance, prevColor, sampleCount) ==
    IF frameIndex = 0
    THEN Cell(radiance, F(1))
    ELSE IF AnyNan(prevColor) \/ AnyInf(prevColor) \/ FLe(sampleCount, F(0))
         THEN Cell(radiance, F(1))
         ELSE RunningMean(radiance, prevColor, sampleCount)

\* the reset writing a count of zero
AccumulateRtSceneZeroCount(frameIndex, radiance, prevColor, sampleCount) ==
    IF frameIndex = 0
    THEN Cell(radiance, F(0))
    ELSE RunningMean(radiance, prevColor, sampleCount)

AccumulateRtScene(frameIndex, radiance, prevColor, sampleCount) ==
    IF frameIndex = 0
    THEN Cell(radiance, F(1))
    ELSE RunningMean(radiance, prevColor, sampleCount)

\* the accumulation seeing the frame counter after its increment
AccumulateLateIndex(v, frameIndex, radiance, prevColor, sampleCount) ==
    IF v = "mitsuba_rt"
    THEN AccumulateMitsuba(frameIndex + 1, radiance, prevColor, sampleCount)
    ELSE AccumulateRtScene(frameIndex + 1, radiance, prevColor, sampleCount)

Accumulate(v, frameIndex, radiance, prevColor, sampleCount) ==
    IF v = "mitsuba_rt"
    THEN AccumulateMitsuba(frameIndex, radiance, prevColor, sampleCount)
    ELSE AccumulateRtScene(frameIndex, radiance, prevColor, sampleCount)

\* the display value: the tone curve and the gamma encoding are kept as a
\* term over the colour and the exposure they are applied to
ToneMap(v, newColor) ==
    IF v = "mitsuba_rt"
    THEN [ curve |-> "aces", exposure |-> Q(15, 1000), color |-> newColor ]
    ELSE [ curve |-> "reinhard", exposure |-> F(1), color |-> newColor ]

\* the values the UI sliders are moved to
ExposureChoices == { Q(15, 1000), Q(1, 2) }
BounceChoices == { 1, 16 }

\* the paths a pixel can take in a frame: each is a cyclic script of events
FrameScripts(v) ==
    IF v = "mitsuba_rt"
    THEN { << Ev(FALSE, Splat(Q(2, 5)), 1, NoSample, F(0)) >>,
           << Ev(TRUE, Zero3, 2, Smp(Splat(Q(1, 2)), Splat(Q(1, 4)), Q(1, 2), FALSE, F(1)), F(1)),
              Ev(FALSE, Splat(Q(4, 5)), 1, NoSample, F(0)) >> }
    ELSE { << Ev(FALSE, Splat(Q(2, 5)), 1, NoSample, F(0)) >>,
           << Ev(FALSE, Splat(Q(4, 5)), 1, NoSample, F(0)) >>,
           << Ev(TRUE, Zero3, 1, Smp(Zero3, Zero3, F(1), FALSE, F(1)), F(0)) >> }

\* the radiance each of these paths returns, per build and bounce limit
FrameRadiances ==
    [ v \in Variants |->
        [ mb \in BounceChoices \cup { DefaultMaxBounces(v) } |->
            { TracePath(v, mb, script) : script \in FrameScripts(v) } ] ]

\* what a freshly created texture may hold
GarbageCells ==
    { Cell(Splat(NaN), F(5)), Cell(V3(F(1), PInf, F(0)), F(2)),
      Cell(Splat(Q(7, 10)), F(-2)), Cell(Splat(Q(3, 10)), F(3)) }

(***************************************************************************)
(* Host callbacks.                                                         *)
(***************************************************************************)
GpuIdle == \A px \in Pixels : thread[px].pc \in { "idle", "done" }

InputKeys == { "W", "X" }

KeyboardUpdate(key, action) ==
    LET pressed == (action = 1 \/ action = 2)
        keys == IF key \notin Keys THEN m_Keys
                ELSE IF pressed THEN m_Keys \cup { key } ELSE m_Keys \ { key }
    IN  /\ GpuIdle
        /\ Cardinality(keys) <= MaxKeysDown
        /\ m_Keys' = keys
        /\ UNCHANGED << variant, m_FrameIndex, m_MouseDown, m_RenderTarget, m_Exposure,
                        m_MaxBounces, gpuVars, path, fnVars >>

MouseButtonUpdate(button, action) ==
    /\ GpuIdle
    /\ m_MouseDown' = IF button = 1 THEN (action = 1) ELSE m_MouseDown
    /\ UNCHANGED << variant, m_FrameIndex, m_Keys, m_RenderTarget, m_Exposure,
                    m_MaxBounces, gpuVars, path, fnVars >>

MousePosUpdate ==
    /\ GpuIdle
    /\ m_FrameIndex' = IF m_MouseDown THEN 0 ELSE m_FrameIndex
    /\ UNCHANGED << variant, m_MouseDown, m_Keys, m_RenderTarget, m_Exposure,
                    m_MaxBounces, gpuVars, path, fnVars >>

Animate ==
    LET moved == (m_Keys # {})
    IN  /\ GpuIdle
        /\ m_FrameIndex' = IF moved THEN 0 ELSE m_FrameIndex
        /\ UNCHANGED << variant, m_MouseDown, m_Keys, m_RenderTarget, m_Exposure,
                        m_MaxBounces, gpuVars, path, fnVars >>

BackBufferResizing ==
    /\ GpuIdle
    /\ m_RenderTarget' = FALSE
    /\ m_FrameIndex' = 0
    /\ AccumulationTexture' = [ px \in Pixels |-> NoCell ]
    /\ OutputTexture' = [ px \in Pixels |-> NoOutput ]
    /\ sumRadiance' = [ px \in Pixels |-> NoSum ]
    /\ UNCHANGED << variant, m_MouseDown, m_Keys, m_Exposure, m_MaxBounces,
                    Camera, thread, path, fnVars >>

\* the exposure slider without the call of ResetAccumulation
SetExposureNoReset(e) ==
    /\ GpuIdle
    /\ variant = "mitsuba_rt"
    /\ e # m_Exposure
    /\ m_Exposure' = e
    /\ UNCHANGED << variant, m_FrameIndex, m_MouseDown, m_Keys, m_RenderTarget, m_MaxBounces,
                    gpuVars, path, fnVars >>

\* UI: the exposure slider (mitsuba_rt)
SetExposure(e) ==
    /\ GpuIdle
    /\ variant = "mitsuba_rt"
    /\ e # m_Exposure
    /\ m_Exposure' = e
    /\ m_FrameIndex' = 0
    /\ UNCHANGED << variant, m_MouseDown, m_Keys, m_RenderTarget, m_MaxBounces,
                    gpuVars, path, fnVars >>

\* UI: the max-bounces slider (mitsuba_rt)
SetMaxBounces(n) ==
    /\ GpuIdle
    /\ variant = "mitsuba_rt"
    /\ n # m_MaxBounces
    /\ m_MaxBounces' = n
    /\ m_FrameIndex' = 0
    /\ UNCHANGED << variant, m_MouseDown, m_Keys, m_RenderTarget, m_Exposure,
                    gpuVars, path, fnVars >>

\* Render with the counter incremented before the constants are written
RenderLateConstants ==
    /\ GpuIdle
    /\ m_FrameIndex < MaxFrames
    /\ IF m_RenderTarget
       THEN UNCHANGED << AccumulationTexture, OutputTexture >>
       ELSE /\ \E g \in GarbageCells : AccumulationTexture' = [ px \in Pixels |-> g ]
            /\ OutputTexture' = [ px \in Pixels |-> NoOutput ]
    /\ m_RenderTarget' = TRUE
    /\ Camera' = [ frameIndex |-> m_FrameIndex + 1, maxBounces |-> m_MaxBounces,
                   samplesPerPixel |-> 1 ]
    /\ thread' = [ px \in Pixels |-> [ IdleThread EXCEPT !.pc = "pending" ] ]
    /\ m_FrameIndex' = m_FrameIndex + 1
    /\ UNCHANGED << variant, m_MouseDown, m_Keys, m_Exposure, m_MaxBounces,
                    sumRadiance, path, fnVars >>

\* Render: create the textures when missing, write the constants, dispatch
Render ==
    /\ GpuIdle
    /\ m_FrameIndex < MaxFrames
    /\ IF m_RenderTarget
       THEN UNCHANGED << AccumulationTexture, OutputTexture >>
       ELSE /\ \E g \in GarbageCells : AccumulationTexture' = [ px \in Pixels |-> g ]
            /\ OutputTexture' = [ px \in Pixels |-> NoOutput ]
    /\ m_RenderTarget' = TRUE
    /\ Camera' = [ frameIndex |-> m_FrameIndex, maxBounces |-> m_MaxBounces,
                   samplesPerPixel |-> 1 ]
    /\ thread' = [ px \in Pixels |-> [ IdleThread EXCEPT !.pc = "pending" ] ]
    /\ m_FrameIndex' = m_FrameIndex + 1
    /\ UNCHANGED << variant, m_MouseDown, m_Keys, m_Exposure, m_MaxBounces,
                    sumRadiance, path, fnVars >>

\* RayGen generating two camera rays for its pixel
RayGenBeginTwoRays(px) ==
    /\ thread[px].pc = "pending"
    /\ \E radiance \in FrameRadiances[variant][Camera.maxBounces] :
         thread' = [ thread EXCEPT ![px] =
                       [ pc |-> "read",
                         primaryRays |-> 2,
                         radiance |-> radiance,
                         prevColor |-> AccumulationTexture[px].color,
                         sampleCount |-> AccumulationTexture[px].sampleCount ] ]
    /\ UNCHANGED << variant, hostVars, Camera, AccumulationTexture, OutputTexture,
                    sumRadiance, path, fnVars >>

(***************************************************************************)
(* The RayGen invocation of one pixel: trace and read, then write.         *)
(***************************************************************************)
RayGenBegin(px) ==
    /\ thread[px].pc = "pending"
    /\ \E radiance \in FrameRadiances[variant][Camera.maxBounces] :
         thread' = [ thread EXCEPT ![px] =
                       [ pc |-> "read",
                         primaryRays |-> 1,
                         radiance |-> radiance,
                         prevColor |-> AccumulationTexture[px].color,
                         sampleCount |-> AccumulationTexture[px].sampleCount ] ]
    /\ UNCHANGED << variant, hostVars, Camera, AccumulationTexture, OutputTexture,
                    sumRadiance, path, fnVars >>

\* RayGen writing the cells of the neighbouring pixel
RayGenEndNeighbour(px) ==
    LET t == thread[px]
        q == (px % NumPixels) + 1
        new == Accumulate(variant, Camera.frameIndex, t.radiance, t.prevColor, t.sampleCount)
    IN  /\ t.pc = "read"
        /\ AccumulationTexture' = [ AccumulationTexture EXCEPT ![q] = new ]
        /\ OutputTexture' = [ OutputTexture EXCEPT ![q] = ToneMap(variant, new.color) ]
        /\ sumRadiance' = [ sumRadiance EXCEPT ![px] =
                              IF Camera.frameIndex = 0
                              THEN [ sum |-> t.radiance, k |-> 1 ]
                              ELSE [ sum |-> VAdd(@.sum, t.radiance), k |-> @.k + 1 ] ]
        /\ thread' = [ thread EXCEPT ![px] = [ IdleThread EXCEPT !.pc = "done" ] ]
        /\ UNCHANGED << variant, hostVars, Camera, path, fnVars >>

RayGenEnd(px) ==
    LET t == thread[px]
        new == Accumulate(variant, Camera.frameIndex, t.radiance, t.prevColor, t.sampleCount)
    IN  /\ t.pc = "read"
        /\ AccumulationTexture' = [ AccumulationTexture EXCEPT ![px] = new ]
        /\ OutputTexture' = [ OutputTexture EXCEPT ![px] = ToneMap(variant, new.color) ]
        /\ sumRadiance' = [ sumRadiance EXCEPT ![px] =
                              IF Camera.frameIndex = 0
                              THEN [ sum |-> t.radiance, k |-> 1 ]
                              ELSE [ sum |-> VAdd(@.sum, t.radiance), k |-> @.k + 1 ] ]
        /\ thread' = [ thread EXCEPT ![px] = [ IdleThread EXCEPT !.pc = "done" ] ]
        /\ UNCHANGED << variant, hostVars, Camera, path, fnVars >>

Init ==
    /\ variant \in Variants
    /\ HostInit /\ GpuInit /\ FnInit
    /\ path = NoPath

Next ==
    \/ \E key \in InputKeys, action \in 0 .. 2 : KeyboardUpdate(key, action)
    \/ \E button \in 0 .. 1, action \in 0 .. 1 : MouseButtonUpdate(button, action)
    \/ MousePosUpdate
    \/ Animate
    \/ BackBufferResizing
    \/ \E e \in ExposureChoices : SetExposure(e)
    \/ \E n \in BounceChoices : SetMaxBounces(n)
    \/ Render
    \/ \E px \in Pixels : RayGenBegin(px)
    \/ \E px \in Pixels : RayGenEnd(px)

Spec == Init /\ [][Next]_vars


(***************************************************************************)
(* SpecFn: the material dispatch and the Fresnel term, called on their own. *)
(***************************************************************************)
MATERIAL_DIFFUSE == 0
MATERIAL_CONDUCTOR == 1
MATERIAL_ROUGH_CONDUCTOR == 2
MATERIAL_DIELECTRIC == 3
MATERIAL_ROUGH_DIELECTRIC == 4
MATERIAL_PLASTIC == 5
MATERIAL_ROUGH_PLASTIC == 6
MATERIAL_THIN_DIELECTRIC == 7
MATERIAL_PRINCIPLED == 8
MATERIAL_BLEND == 9
MATERIAL_MASK == 10
MATERIAL_NULL == 11

DefinedTypes == MATERIAL_DIFFUSE .. MATERIAL_NULL

\* values of the uint discriminant that name no material
UnknownTypes == { 12, 13, 255, 2147483647 }

INV_PI == Q(31831, 100000)

\* a sampled direction: how it was built and from which random pair
Dir(kind, u) == [ kind |-> kind, u |-> u ]

\* a pdf, kept as scale * sqrt(radicand)
Pdf(scale, radicand) == [ scale |-> scale, radicand |-> radicand ]

SampleResult(wi, w, pdf, refr) ==
    [ wi |-> wi, throughputWeight |-> w, pdf |-> pdf, isRefracted |-> refr ]

\* CosineSampleHemisphere + LocalToWorld; N.wi is the local z = sqrt(max(0, 1 - u.x))
Diffuse_Sample(u) ==
    [ wi |-> Dir("cosine", u),
      pdf |-> Pdf(INV_PI, FMax(F(0), FSub(F(1), u[1]))) ]

Diffuse_Evaluate(albedo, NdotL) ==
    IF FLe(NdotL, F(0)) THEN Zero3 ELSE VScale(albedo, INV_PI)

Null_Sample == [ wi |-> Dir("through", << F(0), F(0) >>), pdf |-> Pdf(F(1), F(1)), throughputWeight |-> One3 ]

Null_Evaluate == Zero3

\* TRUE when the second material of a blend is to be sampled
Blend_ChooseMaterial(weight, u) == FGe(u, FSub(F(1), weight))

\* the pdf correction factor of the chosen branch
Blend_PDFWeight(weight, isSecondMaterial) ==
    IF isSecondMaterial THEN weight ELSE FSub(F(1), weight)

\* the mask test with the threshold of the blend test
Mask_ShouldPassThroughBlendThreshold(opacity, u) == FGe(u, FSub(F(1), opacity))

Mask_ShouldPassThrough(opacity, u) == FGe(u, opacity)

Mask_PassThrough == Dir("through", << F(0), F(0) >>)

\* an unknown type handled as the null material
Material_SampleDefaultAsNull(mat, u) ==
    SampleResult(Null_Sample.wi, Null_Sample.throughputWeight, Null_Sample.pdf, TRUE)

\* the default case of Material_Sample
Material_SampleDefault(mat, u) ==
    LET d == Diffuse_Sample(u)
    IN  SampleResult(d.wi, mat.baseColor, d.pdf, FALSE)

\* sqrt on the values whose root is rational
IsRootOf(r, n) == IF r = 0 THEN n = 0 ELSE r <= n \div r /\ r * r = n
IsSquare(n) == \E r \in 0 .. n : IsRootOf(r, n)
ISqrt(n) == CHOOSE r \in 0 .. n : IsRootOf(r, n)
HasSqrt(a) == isfinite(a) /\ a.n >= 0 /\ IsSquare(a.n) /\ IsSquare(a.d)
Sqrt(a) == Q(ISqrt(a.n), ISqrt(a.d))

\* FresnelDielectric with the ratio of the sines inverted
FresnelDielectricInvertedRatio(cosThetaI, eta) ==
    LET sinThetaI == Sqrt(FMax(F(0), FSub(F(1), FMul(cosThetaI, cosThetaI))))
        sinThetaT == FMul(sinThetaI, eta)
    IN  IF FGe(sinThetaT, F(1)) THEN F(1) ELSE Q(1, 2)

FresnelDielectric(cosThetaI, eta) ==
    LET sinThetaI == Sqrt(FMax(F(0), FSub(F(1), FMul(cosThetaI, cosThetaI))))
        sinThetaT == FDiv(sinThetaI, eta)
    IN  IF FGe(sinThetaT, F(1))
        THEN F(1)
        ELSE LET cosThetaT == Sqrt(FMax(F(0), FSub(F(1), FMul(sinThetaT, sinThetaT))))
                 Rs == FDiv(FSub(FMul(eta, cosThetaI), cosThetaT),
                            FAdd(FMul(eta, cosThetaI), cosThetaT))
                 Rp == FDiv(FSub(cosThetaI, FMul(eta, cosThetaT)),
                            FAdd(cosThetaI, FMul(eta, cosThetaT)))
             IN  FMul(Q(1, 2), FAdd(FMul(Rs, Rs), FMul(Rp, Rp)))

\* the smooth/rough branch point with a threshold of 0.001
IsSmoothThousandth(roughness) == FLt(roughness, Q(1, 1000))

\* roughness < 0.01f: the smooth variant of a family is used
IsSmooth(roughness) == FLt(roughness, Q(1, 100))

\* Luminance of an RGB colour
Luminance(color) ==
    FAdd(FAdd(FMul(Q(2126, 10000), color[1]), FMul(Q(7152, 10000), color[2])),
         FMul(Q(722, 10000), color[3]))

\* SmoothPlastic_EvaluateNonlinear with nonlinear = false; `lobe` is the value
\* of Fh * D * G / (4 NdotV NdotL + EPSILON) for the half vector of wo and wi
SmoothPlastic_Evaluate(diffuseColor, intIOR, extIOR, NdotV, NdotL, lobe) ==
    IF FLe(NdotV, F(0)) \/ FLe(NdotL, F(0))
    THEN Zero3
    ELSE LET eta == FDiv(extIOR, intIOR)
             specularScale == Q(3, 10)
             Fv == FresnelDielectric(NdotV, eta)
             Fl == FresnelDielectric(NdotL, eta)
             transmissionBoost == FAdd(F(1), FMul(Q(1, 2), FSub(F(1), NdotV)))
             k == FMul(FMul(INV_PI, FSub(F(1), FMul(Fv, Q(1, 2)))),
                       FMul(FSub(F(1), FMul(Fl, Q(1, 2))), transmissionBoost))
         IN  VAdd(VScale(lobe, specularScale), VScale(diffuseColor, k))

\* SmoothPlastic_SampleNonlinear: the probability of sampling the specular
\* lobe, from the Fresnel term Fr of the view direction
SmoothPlastic_ProbSpecOf(diffuseColor, Fr) ==
    LET specContrib == FMul(Fr, Q(3, 10))
        diffContrib == FMul(Luminance(diffuseColor), FSub(F(1), FMul(Fr, Q(1, 2))))
        totalWeight == FAdd(specContrib, diffContrib)
    IN  IF FGt(totalWeight, EPSILON)
        THEN FMin(FDiv(specContrib, totalWeight), Q(15, 100))
        ELSE Q(5, 100)

SmoothPlastic_ProbSpec(diffuseColor, intIOR, extIOR, NdotV) ==
    SmoothPlastic_ProbSpecOf(diffuseColor, FresnelDielectric(NdotV, FDiv(extIOR, intIOR)))

\* SmoothPlastic_SampleNonlinear: the random pair handed to the chosen lobe
SmoothPlastic_LobeU(probSpec, u) ==
    IF FLt(u[1], probSpec)
    THEN << FDiv(u[1], probSpec), u[2] >>
    ELSE << FDiv(FSub(u[1], probSpec), FSub(F(1), probSpec)), u[2] >>

\* SmoothPlastic_SampleNonlinear: dot(normal, wi) of the sampled direction;
\* ggx.NdotL is the cosine of the direction reflected about the GGX half vector
SmoothPlastic_NdotL(probSpec, u, ggx) ==
    IF FLt(u[1], probSpec)
    THEN ggx.NdotL
    ELSE FMax(F(0), Sqrt(FMax(F(0), FSub(F(1), SmoothPlastic_LobeU(probSpec, u)[1]))))

\* SmoothPlastic_SampleNonlinear past the choice of the lobe: pdf and weight
\* of the direction whose cosine is NdotL.  ggx holds what the GGX functions
\* give for the half vector of wo and wi: lobe is
\* Fh * D * G / (4 NdotV NdotL + EPSILON), specPdf is D * NdotH / (4 VdotH + EPSILON)
SmoothPlastic_Weigh(diffuseColor, eta, Fr, probSpec, wi, NdotL, ggx) ==
    IF FLe(NdotL, F(0))
    THEN SampleResult(wi, Zero3, Pdf(F(0), F(1)), FALSE)
    ELSE LET diffPdf == FMul(NdotL, INV_PI)
             pdf == FAdd(FMul(probSpec, ggx.specPdf), FMul(FSub(F(1), probSpec), diffPdf))
             Fl == FresnelDielectric(NdotL, eta)
             diffuse == VScale(diffuseColor,
                               FMul(INV_PI, FMul(FSub(F(1), Fr), FSub(F(1), Fl))))
         IN  SampleResult(wi,
                          VScale(VAdd(ggx.lobe, diffuse), FDiv(NdotL, FAdd(pdf, EPSILON))),
                          Pdf(pdf, F(1)), FALSE)

\* SmoothPlastic_SampleNonlinear: the choice of the lobe and of the direction
SmoothPlastic_Choose(diffuseColor, eta, Fr, probSpec, u, ggx) ==
    SmoothPlastic_Weigh(diffuseColor, eta, Fr, probSpec,
                        Dir(IF FLt(u[1], probSpec) THEN "ggx" ELSE "cosine",
                            SmoothPlastic_LobeU(probSpec, u)),
                        SmoothPlastic_NdotL(probSpec, u, ggx), ggx)

\* SmoothPlastic_SampleNonlinear with nonlinear = false
SmoothPlastic_Sample(diffuseColor, intIOR, extIOR, NdotV, u, ggx) ==
    IF FLe(NdotV, F(0))
    THEN SampleResult(Dir("none", << F(0), F(0) >>), Zero3, Pdf(F(0), F(1)), FALSE)
    ELSE SmoothPlastic_Choose(diffuseColor, FDiv(extIOR, intIOR),
                              FresnelDielectric(NdotV, FDiv(extIOR, intIOR)),
                              SmoothPlastic_ProbSpec(diffuseColor, intIOR, extIOR, NdotV),
                              u, ggx)

\* Material_Sample whose mask case leaves the diffuse pdf unscaled
Material_SampleMaskPdfUnscaled(mat, NdotV, u, inner) ==
    IF mat.type = MATERIAL_MASK /\ ~Mask_ShouldPassThrough(mat.opacity, u[1])
    THEN LET d == Diffuse_Sample(<< FDiv(u[1], mat.opacity), u[2] >>)
         IN  SampleResult(d.wi, mat.baseColor, d.pdf, FALSE)
    ELSE Material_SampleDefault(mat, u)

\* Material_Sample.  `inner` is what the conductor, dielectric, plastic,
\* thin-dielectric or principled module hands back when the type selects it
Material_Sample(mat, NdotV, u, inner) ==
    CASE mat.type = MATERIAL_DIFFUSE ->
             LET d == Diffuse_Sample(u)
             IN  SampleResult(d.wi, mat.baseColor, d.pdf, FALSE)
      [] mat.type \in { MATERIAL_CONDUCTOR, MATERIAL_ROUGH_CONDUCTOR } ->
             IF IsSmooth(mat.roughness)
             THEN SampleResult(Dir("reflect", << F(0), F(0) >>),
                               IF mat.perfectMirror THEN mat.baseColor
                               ELSE inner.throughputWeight,
                               Pdf(F(1), F(1)), FALSE)
             ELSE SampleResult(inner.wi, inner.throughputWeight, inner.pdf, FALSE)
      [] mat.type \in { MATERIAL_DIELECTRIC, MATERIAL_ROUGH_DIELECTRIC } ->
             IF IsSmooth(mat.roughness)
             THEN SampleResult(inner.wi, inner.throughputWeight, Pdf(F(1), F(1)), inner.flag)
             ELSE SampleResult(inner.wi, inner.throughputWeight, inner.pdf, inner.flag)
      [] mat.type \in { MATERIAL_PLASTIC, MATERIAL_ROUGH_PLASTIC } ->
             IF IsSmooth(mat.roughness)
             THEN IF FLe(NdotV, F(0))
                  THEN SampleResult(Dir("none", << F(0), F(0) >>), Zero3,
                                    Pdf(F(0), F(1)), FALSE)
                  ELSE SampleResult(inner.wi, inner.throughputWeight, inner.pdf, FALSE)
             ELSE SampleResult(inner.wi, inner.throughputWeight, inner.pdf, FALSE)
      [] mat.type \in { MATERIAL_THIN_DIELECTRIC, MATERIAL_PRINCIPLED } ->
             SampleResult(inner.wi, inner.throughputWeight, inner.pdf, inner.flag)
      [] mat.type = MATERIAL_NULL ->
             SampleResult(Null_Sample.wi, Null_Sample.throughputWeight, Null_Sample.pdf, TRUE)
      [] mat.type = MATERIAL_MASK ->
             IF Mask_ShouldPassThrough(mat.opacity, u[1])
             THEN SampleResult(Mask_PassThrough, One3, Pdf(FSub(F(1), mat.opacity), F(1)), TRUE)
             ELSE LET u2 == << FDiv(u[1], mat.opacity), u[2] >>
                      d == Diffuse_Sample(u2)
                  IN  SampleResult(d.wi, mat.baseColor,
                                   [ d.pdf EXCEPT !.scale = FMul(@, mat.opacity) ], FALSE)
      [] OTHER -> Material_SampleDefault(mat, u)

\* Material_Evaluate.  `inner` is the value of the module the type selects
\* (for smooth plastic: of its unscaled specular lobe)
Material_Evaluate(mat, NdotV, NdotL, inner) ==
    CASE mat.type = MATERIAL_DIFFUSE -> Diffuse_Evaluate(mat.baseColor, NdotL)
      [] mat.type \in { MATERIAL_CONDUCTOR, MATERIAL_ROUGH_CONDUCTOR,
                        MATERIAL_DIELECTRIC, MATERIAL_ROUGH_DIELECTRIC } ->
             IF IsSmooth(mat.roughness) THEN Zero3 ELSE inner
      [] mat.type \in { MATERIAL_PLASTIC, MATERIAL_ROUGH_PLASTIC } ->
             IF IsSmooth(mat.roughness)
             THEN SmoothPlastic_Evaluate(mat.baseColor, mat.intIOR, mat.extIOR,
                                         NdotV, NdotL, inner)
             ELSE inner
      [] mat.type \in { MATERIAL_THIN_DIELECTRIC, MATERIAL_PRINCIPLED } -> inner
      [] mat.type = MATERIAL_NULL -> Null_Evaluate
      [] mat.type = MATERIAL_MASK -> VScale(Diffuse_Evaluate(mat.baseColor, NdotL), mat.opacity)
      [] OTHER -> Diffuse_Evaluate(mat.baseColor, NdotL)

\* ThinDielectric_Sample: the sums of the inter-reflection series of a slab
\* whose single-interface reflectance is R
ThinDielectricSeries(R) ==
    LET R2 == FMul(R, R)
        T == FSub(F(1), R)
        T2 == FMul(T, T)
        den == FAdd(FSub(F(1), R2), EPSILON)
    IN  [ R_total |-> FAdd(R, FDiv(FMul(T2, R), den)), T_total |-> FDiv(T2, den) ]

\* ThinDielectric_Sample: R_total /= sum; T_total /= sum
ThinDielectricNormalize(t) ==
    LET sum == FAdd(t.R_total, t.T_total)
    IN  [ R_total |-> FDiv(t.R_total, sum), T_total |-> FDiv(t.T_total, sum) ]

\* ThinDielectric_Sample without the renormalisation of the two totals
ThinDielectricTotalsUnnormalized(intIOR, extIOR, cosTheta) ==
    ThinDielectricSeries(FresnelDielectric(FAbs(cosTheta), FDiv(extIOR, intIOR)))

\* ThinDielectric_Sample: total reflectance and transmittance of the slab,
\* renormalised; cosTheta is dot(wo, normal)
ThinDielectricTotals(intIOR, extIOR, cosTheta) ==
    ThinDielectricNormalize(
        ThinDielectricSeries(FresnelDielectric(FAbs(cosTheta), FDiv(extIOR, intIOR))))

\* ThinDielectric_Sample as Material_Sample calls it (both specular factors 1)
ThinDielectric_Sample(intIOR, extIOR, cosTheta, u) ==
    LET t == ThinDielectricTotals(intIOR, extIOR, cosTheta)
    IN  IF FLt(u[1], t.R_total)
        THEN SampleResult(Dir("reflect", << F(0), F(0) >>), One3, Pdf(t.R_total, F(1)), FALSE)
        ELSE SampleResult(Dir("through", << F(0), F(0) >>), One3, Pdf(t.T_total, F(1)), TRUE)

\* Refract: FALSE on total internal reflection; cosI is dot(v, n)
Refract(cosI, eta) ==
    LET sin2I == FMax(F(0), FSub(F(1), FMul(cosI, cosI)))
        sin2T == FMul(FMul(eta, eta), sin2I)
    IN  ~FGe(sin2T, F(1))

\* SmoothDielectric_Sample: the side test; cosTheta is dot(wo, normal)
Dielectric_Exiting(cosTheta) == FLt(cosTheta, F(0))
Dielectric_CosI(cosTheta) == IF Dielectric_Exiting(cosTheta) THEN FNeg(cosTheta) ELSE cosTheta
Dielectric_Eta(intIOR, extIOR, cosTheta) ==
    IF Dielectric_Exiting(cosTheta) THEN FDiv(intIOR, extIOR) ELSE FDiv(extIOR, intIOR)

\* SmoothDielectric_Sample: etaRatio, from the cosine after the side test
SmoothDielectric_EtaRatio(intIOR, extIOR, cosI) ==
    IF FGt(cosI, F(0)) THEN FDiv(intIOR, extIOR) ELSE FDiv(extIOR, intIOR)

\* RoughDielectric_Sample: etaRatio, from dot(wo, normal)
RoughDielectric_EtaRatio(intIOR, extIOR, cosTheta) ==
    IF FGt(cosTheta, F(0)) THEN FDiv(intIOR, extIOR) ELSE FDiv(extIOR, intIOR)

\* RoughDielectric_Sample: the weight of a refracted sample; g is
\* G * VdotH / (NdotV * NdotH + EPSILON)
RoughDielectric_RefractWeight(intIOR, extIOR, cosTheta, g) ==
    VScale(One3, FMul(FMul(RoughDielectric_EtaRatio(intIOR, extIOR, cosTheta),
                           RoughDielectric_EtaRatio(intIOR, extIOR, cosTheta)), g))

\* SmoothDielectric_Sample past the Fresnel term F
SmoothDielectric_Choose(intIOR, extIOR, cosI, eta, Fr, u) ==
    IF FLt(u[1], Fr)
    THEN SampleResult(Dir("reflect", << F(0), F(0) >>), One3, Pdf(F(1), F(1)), FALSE)
    ELSE IF Refract(cosI, eta)
         THEN SampleResult(Dir("refract", << F(0), F(0) >>),
                           VScale(One3, FMul(SmoothDielectric_EtaRatio(intIOR, extIOR, cosI),
                                             SmoothDielectric_EtaRatio(intIOR, extIOR, cosI))),
                           Pdf(F(1), F(1)), TRUE)
         ELSE SampleResult(Dir("reflect", << F(0), F(0) >>), One3, Pdf(F(1), F(1)), FALSE)

\* SmoothDielectric_Sample; cosTheta is dot(wo, normal)
SmoothDielectric_Sample(intIOR, extIOR, cosTheta, u) ==
    SmoothDielectric_Choose(intIOR, extIOR, Dielectric_CosI(cosTheta),
                            Dielectric_Eta(intIOR, extIOR, cosTheta),
                            FresnelDielectric(Dielectric_CosI(cosTheta),
                                              Dielectric_Eta(intIOR, extIOR, cosTheta)),
                            u)

\* RayGen leaving the normal as the hit shader delivered it
RayGen_FaceRayUnflipped(dotND) == FNeg(dotND)

\* RayGen: "make sure normal faces the ray"; dotND is dot(normal, ray.Direction)
\* before the test, the value is dot(normal, wo) after it, with wo = -ray.Direction
RayGen_FaceRay(dotND) == IF FGt(dotND, F(0)) THEN dotND ELSE FNeg(dotND)

(***************************************************************************)
(* The random number generator.  A uint is kept as its two 16-bit halves.  *)
(***************************************************************************)
U32(hi, lo) == [ hi |-> hi, lo |-> lo ]
U32Norm(hi, lo) == U32((hi + (lo \div 65536)) % 65536, lo % 65536)
U32Add(a, b) == U32Norm(a.hi + b.hi, a.lo + b.lo)

\* the 32-bit product of two 16-bit values, through the bytes of the first
U32Mul16(x, y) ==
    U32Norm(((x \div 256) * y) \div 256,
            ((x % 256) * y) + ((((x \div 256) * y) % 256) * 256))

\* uint multiplication, modulo 2^32
U32Mul(a, b) ==
    U32Norm(U32Mul16(a.lo, b.lo).hi + U32Mul16(a.hi, b.lo).lo + U32Mul16(a.lo, b.hi).lo,
            U32Mul16(a.lo, b.lo).lo)

\* a >> k
U32Shr(a, k) ==
    IF k >= 16 THEN U32(0, a.hi \div (2^(k - 16)))
    ELSE U32(a.hi \div (2^k), (a.lo \div (2^k)) + ((a.hi % (2^k)) * (2^(16 - k))))

RECURSIVE Xor16(_, _)
Xor16(x, y) ==
    IF x = 0 THEN y
    ELSE IF y = 0 THEN x
    ELSE (2 * Xor16(x \div 2, y \div 2)) + (((x % 2) + (y % 2)) % 2)

U32Xor(a, b) == U32(Xor16(a.hi, b.hi), Xor16(a.lo, b.lo))

\* PCGHash, line by line
PCGHash_State(input) == U32Add(U32Mul(input, U32(11410, 30645)), U32(44118, 19205))
PCGHash_Word(state) ==
    U32Mul(U32Xor(U32Shr(state, (state.hi \div 4096) + 4), state), U32(4238, 62169))
PCGHash_Result(word) == U32Xor(U32Shr(word, 22), word)
PCGHash(input) == PCGHash_Result(PCGHash_Word(PCGHash_State(input)))

\* n / 2^k in lowest terms, without forming a power above 2^30
RECURSIVE Pow2Quotient(_, _)
Pow2Quotient(n, k) ==
    IF k <= 30 THEN Q(n, 2^k) ELSE Pow2Quotient(n \div 2, k - 1)

\* uint -> float (utof, round to nearest even): the number of low bits a
\* 24-bit significand drops, and the rounded significand
UintToFloat_Shift(a) ==
    CHOOSE s \in 0 .. 8 : /\ (a.hi \div (2^s)) < 256
                          /\ s = 0 \/ (a.hi \div (2^(s - 1))) >= 256
UintToFloat_Round(m, r, half) ==
    IF r > half \/ (r = half /\ (m % 2) = 1) THEN m + 1 ELSE m
UintToFloat_Significand(a, s) ==
    IF s = 0 THEN (a.hi * 65536) + a.lo
    ELSE UintToFloat_Round((a.hi * (2^(16 - s))) + (a.lo \div (2^s)), a.lo % (2^s), 2^(s - 1))

\* rng.state / 4294967295.0f: the literal is the float 2^32, and the
\* division of a float by 2^32 is exact
RandomFloat_Value(state) ==
    Pow2Quotient(UintToFloat_Significand(state, UintToFloat_Shift(state)),
                 32 - UintToFloat_Shift(state))

\* RandomFloat: the new rng.state and the value returned
RandomFloat_Result(state) == [ state |-> state, value |-> RandomFloat_Value(state) ]
RandomFloat(state) == RandomFloat_Result(PCGHash(state))

\* the inputs of the calls
MaterialTypes == DefinedTypes \cup UnknownTypes
BaseColors == { Splat(Q(1, 2)), V3(Q(4, 5), Q(1, 5), Q(1, 10)) }
Opacities == { F(0), Q(3, 10), Q(1, 2), F(1) }
BlendWeights == { Q(1, 4), F(1) }
Roughnesses == { F(0), Q(1, 200), Q(1, 100), Q(1, 2) }
MaterialParams(t, c, o, w, r, pm) ==
    [ type |-> t, baseColor |-> c, opacity |-> o, blendWeight |-> w,
      roughness |-> r, perfectMirror |-> pm, intIOR |-> F(3), extIOR |-> F(1) ]
\* every type with every modifier parameter, and the families that branch on
\* the roughness with every roughness
Materials ==
    { MaterialParams(t, c, o, w, Q(1, 2), FALSE) :
          t \in MaterialTypes, c \in BaseColors, o \in Opacities, w \in BlendWeights }
        \cup { MaterialParams(t, c, F(1), F(1), r, pm) :
                  t \in MATERIAL_CONDUCTOR .. MATERIAL_ROUGH_PLASTIC, c \in BaseColors,
                  r \in Roughnesses, pm \in BOOLEAN }
SampleU == { << x, Q(1, 4) >> : x \in { F(0), Q(1, 5), Q(3, 10), Q(1, 2), Q(7, 10), Q(9, 10) } }
InnerSamples ==
    { [ wi |-> Dir("module", << F(0), F(0) >>), throughputWeight |-> One3,
        pdf |-> Pdf(F(1), F(1)), flag |-> FALSE ],
      [ wi |-> Dir("module", << F(0), F(0) >>), throughputWeight |-> Splat(F(2)),
        pdf |-> Pdf(F(1), F(1)), flag |-> TRUE ],
      [ wi |-> Dir("module", << F(0), F(0) >>), throughputWeight |-> Splat(Q(1, 2)),
        pdf |-> Pdf(Q(1, 4), F(1)), flag |-> FALSE ] }
InnerValues == { Zero3, Splat(Q(1, 4)) }
Cosines == { Q(-1, 2), F(0), Q(3, 5), F(1) }
ViewCosines == { Q(-1, 2), F(1) }

\* cosines and sines of the angles of the 3-4-5 and 5-12-13 triangles
AngleGrid == { F(0), Q(3, 5), Q(4, 5), Q(5, 13), Q(12, 13), F(1) }
EtaGrid ==
    { FDiv(a, b) : a \in AngleGrid \ { F(0) }, b \in AngleGrid \ { F(0) } }
        \cup { Q(1, 2), Q(3, 2), F(2) }
FresnelExact(c, eta) ==
    LET sinThetaT == FDiv(Sqrt(FSub(F(1), FMul(c, c))), eta)
    IN  FGe(sinThetaT, F(1)) \/ HasSqrt(FSub(F(1), FMul(sinThetaT, sinThetaT)))
FresnelInputs ==
    { in \in AngleGrid \X EtaGrid : FresnelExact(in[1], in[2]) }

\* indices of refraction and dot(wo, normal) for the thin slab, kept to the
\* pairs for which the Fresnel term is rational
IORs == { F(1), Q(3, 2), F(3) }
ThinInputs ==
    { in \in IORs \X IORs \X { F(1), F(-1), Q(3, 5), Q(-3, 5), F(0) } :
          FresnelExact(FAbs(in[3]), FDiv(in[2], in[1])) }

\* smooth dielectric: indices of refraction (air, water, glass) and
\* dot(wo, normal) on both sides of the surface, kept to the combinations for
\* which the Fresnel term is rational
DielectricIORs == { F(1), Q(4, 3), Q(3, 2) }
DielectricCosines == { F(1), Q(4, 5), Q(3, 5), F(0), Q(-3, 5), Q(-4, 5), F(-1) }
DielectricInputs ==
    { in \in DielectricIORs \X DielectricIORs \X DielectricCosines :
          FresnelExact(Dielectric_CosI(in[3]), Dielectric_Eta(in[1], in[2], in[3])) }

\* hits of the integrator on a smooth dielectric: dot(normal, ray.Direction)
\* is negative for a ray arriving from outside and positive for a ray that
\* travels inside the medium
RayGenInputs ==
    { in \in DielectricInputs : << in[1], in[2], FNeg(in[3]) >> \in DielectricInputs }

\* values of rng.state before a RandomFloat call: the seeds of the first
\* pixels of frame 0, and states taken from the cycle of PCGHash, among them
\* three consecutive states of one invocation
RngStates ==
    { U32(0, 0), U32(0, 1), U32(0, 2),
      U32(6862, 2031), U32(16703, 21480), U32(46088, 65150), U32(49129, 33047),
      U32(32816, 18610), U32(19838, 55209), U32(15715, 60925), U32(33905, 47575) }

\* smooth plastic: colours, indices of refraction, dot(normal, wo), random
\* pairs and GGX values, kept to the combinations on which the Fresnel terms
\* and the cosine of the sampled direction are rational.  The specular lobe
\* vanishes exactly when the two indices are equal (Fh = 0).
PlasticU == { << x, Q(1, 4) >> : x \in { F(0), Q(3, 20), Q(9, 25), Q(16, 25), Q(3, 4), Q(63, 80) } }
GgxValues ==
    { [ NdotL |-> c, lobe |-> l, specPdf |-> p ] :
          c \in { Q(-1, 2), F(1) }, l \in { Zero3, Splat(Q(1, 2)) }, p \in { Q(1, 100), F(2) } }
PlasticCosineExact(c, eta) == HasSqrt(FSub(F(1), FMul(c, c))) /\ FresnelExact(c, eta)
PlasticLobeExact(in, eta, probSpec) ==
    /\ \/ FLt(in.u[1], probSpec)
       \/ HasSqrt(FMax(F(0), FSub(F(1), SmoothPlastic_LobeU(probSpec, in.u)[1])))
    /\ FGt(SmoothPlastic_NdotL(probSpec, in.u, in.ggx), F(0)) =>
          PlasticCosineExact(SmoothPlastic_NdotL(probSpec, in.u, in.ggx), eta)
PlasticExact(in) ==
    /\ (in.ggx.lobe = Zero3) <=> (in.intIOR = in.extIOR)
    /\ FGt(in.NdotV, F(0)) =>
          /\ PlasticCosineExact(in.NdotV, FDiv(in.extIOR, in.intIOR))
          /\ PlasticLobeExact(in, FDiv(in.extIOR, in.intIOR),
                              SmoothPlastic_ProbSpec(in.diffuseColor, in.intIOR,
                                                     in.extIOR, in.NdotV))
PlasticInputs ==
    { in \in [ diffuseColor : BaseColors, intIOR : { F(1), F(3) }, extIOR : { F(1) },
               NdotV : { Q(-1, 2), Q(3, 5), F(1) }, u : PlasticU, ggx : GgxValues ] :
          PlasticExact(in) }

(***************************************************************************)
(* Scene loading of the mitsuba_rt host.  SceneParser::materials is an     *)
(* unordered_map; it is modelled by the sequence of ids in its iteration   *)
(* order, which is the same in LoadSceneGeometry and in LoadOBJShape.      *)
(***************************************************************************)
MaxShapes == 2
ParsedMaterials == { << >>, << "a" >>, << "b" >>, << "a", "b" >>, << "b", "a" >> }
SceneShapes ==
    [ type : { "obj", "rectangle" }, materialRef : { "", "a", "b", "c" },
      hasInlineMaterial : BOOLEAN ]
Scenes ==
    [ materials : ParsedMaterials,
      shapes : UNION { [ 1 .. n -> SceneShapes ] : n \in 1 .. MaxShapes } ]

\* for (auto& [id, mat] : materials) { if (id == materialRef) { matIndex = idx; break; } idx++; }
RECURSIVE LoadOBJShape_FindRef(_, _, _)
LoadOBJShape_FindRef(materials, materialRef, idx) ==
    IF idx >= Len(materials) THEN 0
    ELSE IF materials[idx + 1] = materialRef THEN idx
    ELSE LoadOBJShape_FindRef(materials, materialRef, idx + 1)

AddInstance(st, matIndex) ==
    [ st EXCEPT !.m_Instances = Append(@, [ materialIndex |-> matIndex ]) ]
AddInlineMaterial(st) ==
    AddInstance([ st EXCEPT !.m_Materials = Append(@, "inline") ], Len(st.m_Materials))

LoadOBJShape(st, shape, materials) ==
    IF shape.materialRef # ""
    THEN AddInstance(st, LoadOBJShape_FindRef(materials, shape.materialRef, 0))
    ELSE IF shape.hasInlineMaterial THEN AddInlineMaterial(st)
    ELSE AddInstance(st, 0)

CreateRectangleShape(st, shape) ==
    IF shape.hasInlineMaterial THEN AddInlineMaterial(st) ELSE AddInstance(st, 0)

RECURSIVE LoadSceneGeometry_Shapes(_, _, _)
LoadSceneGeometry_Shapes(st, scene, i) ==
    IF i > Len(scene.shapes) THEN st
    ELSE LoadSceneGeometry_Shapes(
             IF scene.shapes[i].type = "obj"
             THEN LoadOBJShape(st, scene.shapes[i], scene.materials)
             ELSE CreateRectangleShape(st, scene.shapes[i]),
             scene, i + 1)

LoadSceneGeometry(scene) ==
    LoadSceneGeometry_Shapes([ m_Materials |-> scene.materials, m_Instances |-> << >> ],
                             scene, 1)

(***************************************************************************)
(* Material textures of the mitsuba_rt shader.  MaterialTextures[64] is    *)
(* modelled by the texel each sampled slot returns at the hit's texcoord.  *)
(***************************************************************************)
White4 == << F(1), F(1), F(1), F(1) >>
TexIndices == { -5, -1, 0, 63, 64, 100 }
TexSlots == { i \in TexIndices : 0 <= i /\ i < 64 }
Texels ==
    { << Q(1, 2), Q(1, 2), F(1), F(1) >>, << F(1), Q(1, 2), Q(1, 2), F(1) >>,
      << Q(4, 5), Q(1, 2), Q(9, 10), Q(1, 2) >> }
Textures == [ TexSlots -> Texels ]

SampleMaterialTexture(textureIndex, textures) ==
    IF textureIndex < 0 \/ textureIndex >= 64 THEN White4 ELSE textures[textureIndex]

Rgb(c) == << c[1], c[2], c[3] >>

\* GetMaterialWithTextures testing the indices against -1 only
GetMaterialWithTexturesSentinel(mat, textures) ==
    [ mat EXCEPT
        !.baseColor = IF mat.baseColorTexIdx # -1
                      THEN Rgb(SampleMaterialTexture(mat.baseColorTexIdx, textures))
                      ELSE @,
        !.roughness = IF mat.roughnessTexIdx # -1
                      THEN SampleMaterialTexture(mat.roughnessTexIdx, textures)[1]
                      ELSE @ ]

GetMaterialWithTextures(mat, textures) ==
    [ mat EXCEPT
        !.baseColor = IF mat.baseColorTexIdx >= 0
                      THEN Rgb(SampleMaterialTexture(mat.baseColorTexIdx, textures))
                      ELSE @,
        !.roughness = IF mat.roughnessTexIdx >= 0
                      THEN SampleMaterialTexture(mat.roughnessTexIdx, textures)[1]
                      ELSE @ ]

Dot3(a, b) == FAdd(FAdd(FMul(a[1], b[1]), FMul(a[2], b[2])), FMul(a[3], b[3]))
Cross3(a, b) ==
    V3(FSub(FMul(a[2], b[3]), FMul(a[3], b[2])),
       FSub(FMul(a[3], b[1]), FMul(a[1], b[3])),
       FSub(FMul(a[1], b[2]), FMul(a[2], b[1])))
NormalizeBy(v, len) == VScale(v, FDiv(F(1), len))
Normalize(v) == NormalizeBy(v, Sqrt(Dot3(v, v)))

BuildOrthonormalBasis_Tangent(n) ==
    IF FGt(FAbs(n[1]), FAbs(n[2]))
    THEN Normalize(V3(FNeg(n[3]), F(0), n[1]))
    ELSE Normalize(V3(F(0), n[3], FNeg(n[2])))

\* tsNormal = normalize(normalMapSample.xyz * 2 - 1)
DecodeNormal(normalMapSample) ==
    VSub(VScale(Rgb(normalMapSample), F(2)), One3)

TangentToWorld(n, tangent, tsNormal) ==
    Normalize(VAdd(VAdd(VScale(tangent, tsNormal[1]),
                        VScale(Cross3(n, tangent), tsNormal[2])),
                   VScale(n, tsNormal[3])))

ApplyNormalMapFromTexture(geometricNormal, normalTexIdx, textures) ==
    IF normalTexIdx < 0 THEN geometricNormal
    ELSE TangentToWorld(geometricNormal, BuildOrthonormalBasis_Tangent(geometricNormal),
                        Normalize(DecodeNormal(
                            SampleMaterialTexture(normalTexIdx, textures))))

GetShadingNormal(geometricNormal, mat, textures) ==
    ApplyNormalMapFromTexture(geometricNormal, mat.normalTexIdx, textures)

\* the hits whose normalisations are exact
NormalMapExact(normalTexIdx, textures) ==
    normalTexIdx >= 0 =>
        HasSqrt(Dot3(DecodeNormal(SampleMaterialTexture(normalTexIdx, textures)),
                     DecodeNormal(SampleMaterialTexture(normalTexIdx, textures))))
GPUMaterials ==
    [ baseColor : BaseColors, roughness : { Q(1, 100), Q(1, 2) },
      baseColorTexIdx : TexIndices, roughnessTexIdx : TexIndices,
      normalTexIdx : TexIndices ]
GeometricNormals == { V3(F(0), F(0), F(1)), V3(Q(3, 5), F(0), Q(4, 5)) }

InitFn ==
    /\ variant = "mitsuba_rt"
    /\ HostInit /\ GpuInit /\ FnInit
    /\ path = NoPath

CallMaterialSample ==
    /\ call = NoCall
    /\ \E mat \in Materials, NdotV \in ViewCosines, u \in SampleU, inner \in InnerSamples :
          /\ call' = [ fn |-> "Material_Sample", mat |-> mat, NdotV |-> NdotV, u |-> u,
                       inner |-> inner ]
          /\ ret' = Material_Sample(mat, NdotV, u, inner)
    /\ UNCHANGED << variant, hostVars, gpuVars, path >>

CallMaterialEvaluate ==
    /\ call = NoCall
    /\ \E mat \in Materials, NdotV \in ViewCosines, NdotL \in Cosines, inner \in InnerValues :
          /\ call' = [ fn |-> "Material_Evaluate", mat |-> mat, NdotV |-> NdotV,
                       NdotL |-> NdotL, inner |-> inner ]
          /\ ret' = Material_Evaluate(mat, NdotV, NdotL, inner)
    /\ UNCHANGED << variant, hostVars, gpuVars, path >>

CallFresnelDielectric ==
    /\ call = NoCall
    /\ \E in \in FresnelInputs :
          /\ call' = [ fn |-> "FresnelDielectric", cosThetaI |-> in[1], eta |-> in[2] ]
          /\ ret' = FresnelDielectric(in[1], in[2])
    /\ UNCHANGED << variant, hostVars, gpuVars, path >>

CallThinDielectricSample ==
    /\ call = NoCall
    /\ \E in \in ThinInputs, u \in SampleU :
          /\ call' = [ fn |-> "ThinDielectric_Sample", intIOR |-> in[1], extIOR |-> in[2],
                       cosTheta |-> in[3], u |-> u ]
          /\ ret' = ThinDielectric_Sample(in[1], in[2], in[3], u)
    /\ UNCHANGED << variant, hostVars, gpuVars, path >>

\* Dielectric_Sample with roughness < 0.01 calls SmoothDielectric_Sample
CallSmoothDielectricSample ==
    /\ call = NoCall
    /\ \E in \in DielectricInputs, u \in SampleU :
          /\ call' = [ fn |-> "SmoothDielectric_Sample", intIOR |-> in[1], extIOR |-> in[2],
                       cosTheta |-> in[3], u |-> u ]
          /\ ret' = SmoothDielectric_Sample(in[1], in[2], in[3], u)
    /\ UNCHANGED << variant, hostVars, gpuVars, path >>

\* RayGen: the normal is turned towards the ray, then SampleBRDFWithWeight
\* -> Material_Sample -> Dielectric_Sample -> SmoothDielectric_Sample
CallRayGenSample ==
    /\ call = NoCall
    /\ \E in \in RayGenInputs, u \in SampleU :
          /\ call' = [ fn |-> "RayGen_Sample", intIOR |-> in[1], extIOR |-> in[2],
                       dotND |-> in[3], cosTheta |-> RayGen_FaceRay(in[3]), u |-> u ]
          /\ ret' = SmoothDielectric_Sample(in[1], in[2], RayGen_FaceRay(in[3]), u)
    /\ UNCHANGED << variant, hostVars, gpuVars, path >>

\* RayGen draws a random number
CallRandomFloat ==
    /\ call = NoCall
    /\ \E state \in RngStates :
          /\ call' = [ fn |-> "RandomFloat", state |-> state ]
          /\ ret' = RandomFloat(state)
    /\ UNCHANGED << variant, hostVars, gpuVars, path >>

\* Plastic_Sample with roughness < 0.01 calls SmoothPlastic_SampleNonlinear
CallSmoothPlasticSample ==
    /\ call = NoCall
    /\ \E in \in PlasticInputs :
          /\ call' = [ fn |-> "SmoothPlastic_Sample" ] @@ in
          /\ ret' = SmoothPlastic_Sample(in.diffuseColor, in.intIOR, in.extIOR,
                                         in.NdotV, in.u, in.ggx)
    /\ UNCHANGED << variant, hostVars, gpuVars, path >>

\* MitsubaRT::Init loads the scene
CallLoadSceneGeometry ==
    /\ call = NoCall
    /\ \E scene \in Scenes :
          /\ call' = [ fn |-> "LoadSceneGeometry", scene |-> scene ]
          /\ ret' = LoadSceneGeometry(scene)
    /\ UNCHANGED << variant, hostVars, gpuVars, path >>

\* a texture lookup of the shader
CallSampleMaterialTexture ==
    /\ call = NoCall
    /\ \E textureIndex \in TexIndices, textures \in Textures :
          /\ call' = [ fn |-> "SampleMaterialTexture", textureIndex |-> textureIndex,
                       textures |-> textures ]
          /\ ret' = SampleMaterialTexture(textureIndex, textures)
    /\ UNCHANGED << variant, hostVars, gpuVars, path >>

\* RayGen fetches the material and the shading normal of a hit
CallGetMaterialWithTextures ==
    /\ call = NoCall
    /\ \E mat \in GPUMaterials, geometricNormal \in GeometricNormals, textures \in Textures :
          /\ NormalMapExact(mat.normalTexIdx, textures)
          /\ call' = [ fn |-> "GetMaterialWithTextures", mat |-> mat,
                       geometricNormal |-> geometricNormal, textures |-> textures ]
          /\ ret' = [ mat |-> GetMaterialWithTextures(mat, textures),
                      normal |-> GetShadingNormal(geometricNormal, mat, textures) ]
    /\ UNCHANGED << variant, hostVars, gpuVars, path >>

\* the call returns and its result is consumed
Return ==
    /\ call # NoCall
    /\ call' = NoCall /\ ret' = NoCall
    /\ UNCHANGED << variant, hostVars, gpuVars, path >>

NextFn ==
    \/ CallMaterialSample \/ CallMaterialEvaluate \/ CallFresnelDielectric
    \/ CallThinDielectricSample \/ CallSmoothPlasticSample
    \/ CallSmoothDielectricSample \/ CallRayGenSample \/ CallRandomFloat
    \/ CallLoadSceneGeometry \/ CallSampleMaterialTexture \/ CallGetMaterialWithTextures
    \/ Return

SpecFn == InitFn /\ [][NextFn]_vars

(***************************************************************************)
(* Properties of the accumulation (Spec).                                  *)
(***************************************************************************)
\* the step in which the RayGen invocation of pixel px writes its cell
Writes(px) == thread[px].pc = "read" /\ thread'[px].pc = "done"

Corrupted(cell) ==
    AnyNan(cell.color) \/ AnyInf(cell.color) \/ FLe(cell.sampleCount, F(0))

\* C1: a RayGen invocation that runs with frameIndex = 0 writes exactly
\* (this frame's radiance, 1) to its accumulation cell, whatever the cell held
C1_FrameZeroWritesFirstSample ==
    [][ \A px \in Pixels :
          (Writes(px) /\ Camera.frameIndex = 0)
              => AccumulationTexture'[px] = Cell(thread[px].radiance, F(1)) ]_vars

\* frame 0 has overwritten a cell of a fresh texture whose content was NaN with
\* a count of 5: pixel px is written, the other pixel still holds what it read
C1_Witness ==
    \E px \in Pixels, other \in Pixels :
        /\ Camera.frameIndex = 0
        /\ thread[px].pc = "done"
        /\ AccumulationTexture[px] = Cell(Splat(Q(2, 5)), F(1))
        /\ thread[other].pc = "read"
        /\ AnyNan(thread[other].prevColor) /\ thread[other].sampleCount = F(5)
        /\ AccumulationTexture[other] = Cell(Splat(NaN), F(5))

\* C2: after the frames 0 .. k-1 the stored colour is the arithmetic mean of the
\* k radiances and the stored count is k; every update that is not a reset
\* writes prev + (radiance - prev) / (n + 1) and n + 1
C2_StoredIsMean ==
    \A px \in Pixels :
        sumRadiance[px].k >= 1 =>
            /\ AccumulationTexture[px].sampleCount = F(sumRadiance[px].k)
            /\ VScale(AccumulationTexture[px].color, F(sumRadiance[px].k))
                   = sumRadiance[px].sum

C2_UpdateIsIncremental ==
    \A px \in Pixels :
        (Writes(px) /\ Camera.frameIndex # 0 /\ ~Corrupted(AccumulationTexture[px]))
            => LET prev == AccumulationTexture[px].color
                   n == AccumulationTexture[px].sampleCount
                   radiance == thread[px].radiance
               IN  AccumulationTexture'[px] =
                       Cell([ i \in 1 .. 3 |->
                                FAdd(prev[i], FDiv(FSub(radiance[i], prev[i]), FAdd(n, F(1)))) ],
                            FAdd(n, F(1)))

\* C2: the stored cell is always the mean of the frames since frame 0, and
\* every update that is not a reset is the incremental-mean step
C2_IncrementalMean == []C2_StoredIsMean /\ [][C2_UpdateIsIncremental]_vars

\* three frames of radiance 2/5, 4/5 and 4/5 have been averaged to 2/3
C2_Witness ==
    \E px \in Pixels :
        /\ sumRadiance[px] = [ sum |-> Splat(F(2)), k |-> 3 ]
        /\ AccumulationTexture[px] = Cell(Splat(Q(2, 3)), F(3))
        /\ Camera.frameIndex = 2

\* C3: with frameIndex # 0 and a stored cell that has a NaN or Inf channel or
\* a count <= 0, the update writes (this frame's radiance, 1)
C3_CorruptedCellResets ==
    [][ \A px \in Pixels :
          (Writes(px) /\ Camera.frameIndex # 0 /\ Corrupted(AccumulationTexture[px]))
              => AccumulationTexture'[px] = Cell(thread[px].radiance, F(1)) ]_vars

\* C4: once RayGen has written a pixel, the stored count of its cell is >= 1
C4_SampleCountAtLeastOne ==
    \A px \in Pixels :
        OutputTexture[px] # NoOutput => FGe(AccumulationTexture[px].sampleCount, F(1))

\* a cell written over a fresh texture whose count was -2, and a cell that
\* has accumulated every frame the model runs
C4_Witness ==
    /\ \E px \in Pixels :
          /\ OutputTexture[px] # NoOutput
          /\ AccumulationTexture[px].sampleCount = F(MaxFrames)
    /\ Camera.frameIndex = MaxFrames - 1

\* the host steps that restart the accumulation
CameraMoved == (MousePosUpdate /\ m_MouseDown) \/ (Animate /\ m_Keys # {})
SettingChanged ==
    \/ \E e \in ExposureChoices : SetExposure(e)
    \/ \E n \in BounceChoices : SetMaxBounces(n)

\* what every Render does with the frame counter
RenderPassesCounter ==
    Render => (Camera'.frameIndex = m_FrameIndex /\ m_FrameIndex' = m_FrameIndex + 1)

\* C5 as stated: camera movement and resizing set the counter to 0, Render
\* passes it to the shader and adds one, and nothing else changes it
C5_OnlyCameraAndResizeRestart ==
    [][ /\ RenderPassesCounter
        /\ (CameraMoved \/ BackBufferResizing) => m_FrameIndex' = 0
        /\ ~(Render \/ CameraMoved \/ BackBufferResizing)
               => m_FrameIndex' = m_FrameIndex ]_vars

\* C5, amended: a changed UI setting restarts the accumulation as well
C5_RestartEvents ==
    [][ /\ RenderPassesCounter
        /\ (CameraMoved \/ BackBufferResizing \/ SettingChanged) => m_FrameIndex' = 0
        /\ ~(Render \/ CameraMoved \/ BackBufferResizing \/ SettingChanged)
               => m_FrameIndex' = m_FrameIndex ]_vars

\* frame 0 is dispatched again over a cell that had accumulated two frames,
\* with the camera at rest and the exposure slider moved
C5_Witness ==
    \E px \in Pixels :
        /\ Camera.frameIndex = 0 /\ m_FrameIndex = 1
        /\ thread[px].pc = "read"
        /\ thread[px].sampleCount = F(2) /\ thread[px].prevColor = Splat(Q(1, 2))
        /\ ~m_MouseDown /\ m_Keys = {}
        /\ m_Exposure # DefaultExposure


(***************************************************************************)
(* Properties of the bounce loop (SpecPath).                               *)
(***************************************************************************)
\* the number of loop steps an invocation can still take before it reaches
\* the accumulation
Rank(p) ==
    CASE p.pc = "accumulate" -> 0
      [] p.pc = "finish" -> 1
      [] p.pc = "trace" -> 3 * (p.maxBounces - p.bounce) + 1
      [] p.pc = "shade" -> 3 * (p.maxBounces - p.bounce)
      [] p.pc = "roulette" -> 3 * (p.maxBounces - p.bounce) - 1

\* the guards of the loop's steps: one of them is open
CanStep ==
    \/ path.pc = "trace" /\ TraceEvents # {}
    \/ path.pc = "shade" /\ ShadeEvents # {}
    \/ path.pc = "roulette" /\ RouletteEvents # {}
    \/ path.pc = "finish"

C6_Bounded ==
    /\ path.nTraced <= path.maxBounces
    /\ path.bounce <= path.maxBounces
    /\ Rank(path) >= 0
    /\ path.pc # "accumulate" => CanStep

C6_Progress == path.pc # "accumulate" => Rank(path') < Rank(path)

\* C6: an invocation traces at most maxBounces rays, and every step of the loop
\* brings it closer to the accumulation step, which it can always take
C6_AtMostMaxBouncesThenAccumulate == []C6_Bounded /\ [][C6_Progress]_vars

\* a path that used every bounce, the last ones past Russian roulette
C6_Witness ==
    /\ path.pc = "accumulate"
    /\ path.maxBounces = MaxBouncesBound
    /\ path.nTraced = MaxBouncesBound
    /\ path.bounce = MaxBouncesBound

\* the share of the random numbers with which a path of largest channel p survives
SurvivalProbability(v, p) ==
    Q(Cardinality({ u \in URange : RouletteSurvives(v, p, u) }), UMax + 1)

\* C9: after a survived roulette test, throughput * survival probability is the
\* throughput before the test (to the resolution of the random numbers, which
\* moves the survival probability by less than one grid step)
C9_RouletteUnbiased ==
    [][ (path.pc = "roulette" /\ path.bounce > 3 /\ path'.bounce = path.bounce + 1
           /\ FGt(MaxChannel(path.throughput), F(0)))
        => LET P == SurvivalProbability(variant, MaxChannel(path.throughput))
           IN  \A i \in 1 .. 3 :
                   FLe(FAbs(FSub(FMul(path'.throughput[i], P), path.throughput[i])),
                       FDiv(path'.throughput[i], F(UMax + 1))) ]_vars

(***************************************************************************)
(* Properties of the material dispatch and the Fresnel term (SpecFn).      *)
(***************************************************************************)
\* C7: for a type that is no defined material, Material_Sample and
\* Material_Evaluate return what the Diffuse module returns for the same
\* inputs, with isRefracted = FALSE; every type value gets a result
C7_UnknownTypeIsDiffuse ==
    /\ (call.fn = "Material_Sample" /\ call.mat.type \notin DefinedTypes)
          => ret = SampleResult(Diffuse_Sample(call.u).wi, call.mat.baseColor,
                                Diffuse_Sample(call.u).pdf, FALSE)
    /\ (call.fn = "Material_Evaluate" /\ call.mat.type \notin DefinedTypes)
          => ret = Diffuse_Evaluate(call.mat.baseColor, call.NdotL)
    /\ call.fn = "Material_Sample"
          => /\ ret.isRefracted \in BOOLEAN
             /\ DOMAIN ret = { "wi", "throughputWeight", "pdf", "isRefracted" }
    /\ call.fn = "Material_Evaluate" => DOMAIN ret = 1 .. 3

\* the largest type value, with a coloured surface lit from the front
C7_Witness ==
    /\ call.fn = "Material_Evaluate"
    /\ call.mat.type = 2147483647
    /\ call.mat.baseColor = V3(Q(4, 5), Q(1, 5), Q(1, 10))
    /\ call.NdotL = F(1)
    /\ ret = VScale(call.mat.baseColor, INV_PI)

\* C8 as stated: opacity 0.3 and u.x = 0.5 select the wrapped branch
C8_HalfSelectsWrapped ==
    (call.fn = "Material_Sample" /\ call.mat.type = MATERIAL_MASK
       /\ call.mat.opacity = Q(3, 10) /\ call.u[1] = Q(1, 2))
        => (~ret.isRefracted /\ ret.wi.kind = "cosine")

\* C8, amended: a mask takes the pass-through branch exactly when
\* u.x >= opacity; with opacity 0.3 that includes u.x = 0.5
C8_PassThroughFromOpacity ==
    (call.fn = "Material_Sample" /\ call.mat.type = MATERIAL_MASK)
        => /\ FGe(call.u[1], call.mat.opacity)
                => ret = SampleResult(Dir("through", << F(0), F(0) >>), One3,
                                      Pdf(FSub(F(1), call.mat.opacity), F(1)), TRUE)
           /\ FLt(call.u[1], call.mat.opacity)
                => (~ret.isRefracted /\ ret.wi.kind = "cosine"
                      /\ ret.throughputWeight = call.mat.baseColor)
           /\ (call.mat.opacity = Q(3, 10) /\ call.u[1] = Q(1, 2)) => ret.isRefracted

\* opacity 0.3, u.x = 0.5: the ray passes through
C8_Witness ==
    /\ call.fn = "Material_Sample" /\ call.mat.type = MATERIAL_MASK
    /\ call.mat.opacity = Q(3, 10) /\ call.u[1] = Q(1, 2)
    /\ ret.isRefracted /\ ret.wi.kind = "through"
    /\ ret.pdf = Pdf(Q(7, 10), F(1))

\* sinThetaI / eta >= 1 for the call in flight
TotalReflection ==
    FGe(FDiv(Sqrt(FSub(F(1), FMul(call.cosThetaI, call.cosThetaI))), call.eta), F(1))

\* C10 as stated: 1 when sinThetaI / eta >= 1, strictly between 0 and 1 otherwise
C10_StrictlyBetween ==
    call.fn = "FresnelDielectric"
        => IF TotalReflection THEN ret = F(1) ELSE FGt(ret, F(0)) /\ FLt(ret, F(1))

\* C10, amended: 1 when sinThetaI / eta >= 1; otherwise a value in [0, 1]
\* that is 0 exactly when eta = 1 and 1 exactly when cosThetaI = 0
C10_FresnelRange ==
    call.fn = "FresnelDielectric"
        => IF TotalReflection
           THEN ret = F(1)
           ELSE /\ FGe(ret, F(0)) /\ FLe(ret, F(1))
                /\ ret = F(0) <=> call.eta = F(1)
                /\ ret = F(1) <=> call.cosThetaI = F(0)

\* equal indices at 3/5 incidence: nothing is reflected
C10_Witness ==
    /\ call.fn = "FresnelDielectric"
    /\ call.cosThetaI = Q(3, 5) /\ call.eta = F(1)
    /\ ret = F(0)


\* C11: in ThinDielectric_Sample the renormalised R_total and T_total add up
\* to 1, the sample reflects exactly when u.x < R_total (probability R_total)
\* and otherwise goes straight through (wi = -wo, isTransmitted) with pdf T_total
C11_ThinTotalsSumToOne ==
    call.fn = "ThinDielectric_Sample"
        => LET t == ThinDielectricTotals(call.intIOR, call.extIOR, call.cosTheta)
           IN  /\ FAdd(t.R_total, t.T_total) = F(1)
               /\ FGe(t.R_total, F(0)) /\ FGe(t.T_total, F(0))
               /\ FLt(call.u[1], t.R_total)
                     => (ret.wi.kind = "reflect" /\ ~ret.isRefracted
                           /\ ret.pdf = Pdf(t.R_total, F(1)))
               /\ ~FLt(call.u[1], t.R_total)
                     => (ret.wi.kind = "through" /\ ret.isRefracted
                           /\ ret.pdf = Pdf(t.T_total, F(1)))

\* glass in air at normal incidence, both branches: R = 1/4 for eta = 1/3
C11_Witness ==
    /\ call.fn = "ThinDielectric_Sample"
    /\ call.intIOR = F(3) /\ call.extIOR = F(1) /\ call.cosTheta = F(1)
    /\ call.u[1] = Q(1, 2)
    /\ ret.isRefracted
    /\ FGt(ret.pdf.scale, Q(1, 2)) /\ FLt(ret.pdf.scale, F(1))

\* a uniform grid on [0, 1) for u.x
UnitGrid == { Q(i, 10) : i \in 0 .. 9 }

\* C12: a mask with opacity o passes the ray through (wi = -wo, weight 1,
\* isRefracted) for the share 1 - o of the values of u.x and samples its opaque
\* base for the share o, whose pdf is the base's pdf multiplied by o
C12_MaskProbabilities ==
    (call.fn = "Material_Sample" /\ call.mat.type = MATERIAL_MASK)
        => LET o == call.mat.opacity
               passes == { x \in UnitGrid : Mask_ShouldPassThrough(o, x) }
               base == Diffuse_Sample(<< FDiv(call.u[1], o), call.u[2] >>)
           IN  /\ Q(Cardinality(passes), Cardinality(UnitGrid)) = FSub(F(1), o)
               /\ call.u[1] \in passes
                     => (ret.wi = Mask_PassThrough /\ ret.throughputWeight = One3
                           /\ ret.isRefracted)
               /\ call.u[1] \notin passes
                     => (ret.wi = base.wi /\ ~ret.isRefracted
                           /\ ret.pdf.radicand = base.pdf.radicand
                           /\ ret.pdf.scale = FMul(base.pdf.scale, o))

\* opacity 1/2 and u.x = 0.3: the opaque base is sampled with u.x / o = 0.6
C12_Witness ==
    /\ call.fn = "Material_Sample" /\ call.mat.type = MATERIAL_MASK
    /\ call.mat.opacity = Q(1, 2) /\ call.u[1] = Q(3, 10)
    /\ ~ret.isRefracted
    /\ ret.pdf = Pdf(FMul(INV_PI, Q(1, 2)), Q(2, 5))

\* C13: for a Blend material Material_Sample chooses the second wrapped
\* material exactly when u.x >= 1 - blendWeight and returns the chosen
\* material's sample with its pdf multiplied by the branch factor (blendWeight
\* for the second material, 1 - blendWeight for the first); the wrapped
\* material's own pdf is the module's or the diffuse base's
C13_BlendSelectsByWeight ==
    (call.fn = "Material_Sample" /\ call.mat.type = MATERIAL_BLEND)
        => LET w == call.mat.blendWeight
               factor == Blend_PDFWeight(w, Blend_ChooseMaterial(w, call.u[1]))
           IN  \E wrapped \in { call.inner.pdf, Diffuse_Sample(call.u).pdf } :
                   ret.pdf = [ wrapped EXCEPT !.scale = FMul(@, factor) ]

\* ---------------------------------------------------------------------------
\* the material families that have a smooth and a rough variant
ConductorFamily == { MATERIAL_CONDUCTOR, MATERIAL_ROUGH_CONDUCTOR }
DielectricFamily == { MATERIAL_DIELECTRIC, MATERIAL_ROUGH_DIELECTRIC }
PlasticFamily == { MATERIAL_PLASTIC, MATERIAL_ROUGH_PLASTIC }

\* C14 as stated: for every conductor, dielectric or plastic material with
\* roughness below 0.01, Material_Evaluate returns zero for every direction
\* pair and Material_Sample returns pdf = 1.
C14_SmoothIsDelta ==
    (/\ call.fn \in { "Material_Evaluate", "Material_Sample" }
     /\ call.mat.type \in ConductorFamily \cup DielectricFamily \cup PlasticFamily
     /\ FLt(call.mat.roughness, Q(1, 100)))
        => IF call.fn = "Material_Evaluate"
           THEN ret = Zero3
           ELSE ret.pdf = Pdf(F(1), F(1))

\* C14 amended: the statement holds for the conductor and the dielectric
\* family.  A plastic material with roughness below 0.01 is not a delta
\* distribution: its Material_Evaluate is positive in every channel when both
\* directions are above the surface and the diffuse colour is positive, and
\* its Material_Sample returns pdf = 0 for wo at or below the surface.
C14_SmoothConductorDielectricIsDelta ==
    (/\ call.fn \in { "Material_Evaluate", "Material_Sample" }
     /\ FLt(call.mat.roughness, Q(1, 100)))
        => /\ (call.mat.type \in ConductorFamily \cup DielectricFamily
                  /\ call.fn = "Material_Evaluate") => ret = Zero3
           /\ (call.mat.type \in ConductorFamily \cup DielectricFamily
                  /\ call.fn = "Material_Sample") => ret.pdf = Pdf(F(1), F(1))
           /\ (/\ call.mat.type \in PlasticFamily
               /\ call.fn = "Material_Evaluate"
               /\ FGt(call.NdotV, F(0)) /\ FGt(call.NdotL, F(0))
               /\ \A i \in 1 .. 3 : FGt(call.mat.baseColor[i], F(0)))
                  => \A i \in 1 .. 3 : FGt(ret[i], F(0))
           /\ (/\ call.mat.type \in PlasticFamily
               /\ call.fn = "Material_Sample"
               /\ FLe(call.NdotV, F(0)))
                  => ret.pdf = Pdf(F(0), F(1))

\* a rough-conductor-tagged material of roughness 0.005 whose microfacet
\* module would have sampled with pdf 1/4 is sampled as a mirror with pdf 1
C14_Witness ==
    /\ call.fn = "Material_Sample"
    /\ call.mat.type = MATERIAL_ROUGH_CONDUCTOR
    /\ call.mat.roughness = Q(1, 200)
    /\ call.inner.pdf = Pdf(Q(1, 4), F(1))
    /\ ret.pdf = Pdf(F(1), F(1))
    /\ ret.wi.kind = "reflect"

\* ---------------------------------------------------------------------------
\* C15: a non-delta Sample that returns pdf > 0 returns
\* throughputWeight = Evaluate(wo, wi, N) * |N.wi| / pdf; stated for the
\* diffuse material, the wrapped branch of the mask (N.wi = sqrt(1 - u.x), the
\* root the pdf carries as well) and the smooth-plastic model that the Plastic
\* type uses (there with the guarded divisor pdf + EPSILON of the code).
C15_WeightIsEvaluateCosOverPdf ==
    /\ (/\ call.fn = "Material_Sample"
        /\ \/ call.mat.type = MATERIAL_DIFFUSE
           \/ call.mat.type = MATERIAL_MASK /\ ~ret.isRefracted
        /\ FGt(ret.pdf.scale, F(0)) /\ FGt(ret.pdf.radicand, F(0)))
           => ret.throughputWeight
                 = VDivS(Material_Evaluate(call.mat, call.NdotV, F(1), Zero3), ret.pdf.scale)
    /\ (/\ call.fn = "SmoothPlastic_Sample"
        /\ FGt(ret.pdf.scale, F(0)))
           => LET probSpec == SmoothPlastic_ProbSpec(call.diffuseColor, call.intIOR,
                                                     call.extIOR, call.NdotV)
                  NdotL == SmoothPlastic_NdotL(probSpec, call.u, call.ggx)
                  f == SmoothPlastic_Evaluate(call.diffuseColor, call.intIOR, call.extIOR,
                                              call.NdotV, NdotL, call.ggx.lobe)
              IN  ret.throughputWeight
                     = VScale(f, FDiv(FAbs(NdotL), FAdd(ret.pdf.scale, EPSILON)))

\* ---------------------------------------------------------------------------
\* C16: within a frame the RayGen invocation of a pixel touches no cell of
\* another pixel, reads its own accumulation cell without writing, and writes
\* the accumulation of its radiance onto what its cell holds at that moment
\* (nobody changed the cell since it was read), so that the cells after the
\* frame do not depend on the order in which the invocations ran
C16_OwnCellsReadBeforeWrite ==
    [][ \A px \in Pixels :
          (thread[px].pc \in { "pending", "read" } /\ thread'[px] # thread[px]) =>
             /\ \A q \in Pixels \ { px } :
                   /\ AccumulationTexture'[q] = AccumulationTexture[q]
                   /\ OutputTexture'[q] = OutputTexture[q]
             /\ thread[px].pc = "pending" =>
                   /\ thread'[px].prevColor = AccumulationTexture[px].color
                   /\ thread'[px].sampleCount = AccumulationTexture[px].sampleCount
                   /\ UNCHANGED << AccumulationTexture, OutputTexture >>
             /\ thread[px].pc = "read" =>
                   /\ AccumulationTexture'[px] =
                         Accumulate(variant, Camera.frameIndex, thread[px].radiance,
                                    AccumulationTexture[px].color,
                                    AccumulationTexture[px].sampleCount)
                   /\ OutputTexture'[px] = ToneMap(variant, AccumulationTexture'[px].color)
      ]_vars

\* in a frame after the first, pixel 2 wrote its second sample while pixel 1,
\* which had read its cell before, has not written yet
C16_Witness ==
    /\ Camera.frameIndex = 1
    /\ thread[1].pc = "read"
    /\ thread[2].pc = "done"
    /\ AccumulationTexture[2].sampleCount = F(2)
    /\ AccumulationTexture[1].sampleCount = F(1)
    /\ thread[1].sampleCount = F(1)

\* ---------------------------------------------------------------------------
\* C17 as stated: a change of the exposure setting leaves every accumulation
\* cell as it is and does not restart the accumulation (the frame counter
\* that the next dispatch accumulates with is not reset)
C17_ExposureLeavesAccumulation ==
    [][ m_Exposure' # m_Exposure =>
           /\ AccumulationTexture' = AccumulationTexture
           /\ m_FrameIndex' = m_FrameIndex ]_vars

\* C17 amended: exposure and tone curve enter the display value only: the
\* cell RayGen stores is the accumulated radiance, the display value is the
\* tone curve over that colour, with the exposure the shader fixes.  A change
\* of the exposure setting writes no texture, but it resets the frame counter,
\* so that the next frame restarts the accumulation.
C17_ExposureOnlyDisplayButRestarts ==
    [][ /\ m_Exposure' # m_Exposure =>
              /\ UNCHANGED << AccumulationTexture, OutputTexture >>
              /\ m_FrameIndex' = 0
        /\ \A px \in Pixels : Writes(px) =>
              /\ AccumulationTexture'[px] =
                    Accumulate(variant, Camera.frameIndex, thread[px].radiance,
                               thread[px].prevColor, thread[px].sampleCount)
              /\ OutputTexture'[px].color = AccumulationTexture'[px].color
              /\ OutputTexture'[px].exposure =
                    (IF variant = "mitsuba_rt" THEN Q(15, 1000) ELSE F(1))
      ]_vars

\* the exposure was changed after two frames had been accumulated: the cells
\* still hold two samples and the frame counter is back at 0
C17_Witness ==
    /\ m_Exposure = Q(1, 2)
    /\ m_FrameIndex = 0
    /\ Camera.frameIndex = 1
    /\ GpuIdle
    /\ \A px \in Pixels : AccumulationTexture[px].sampleCount = F(2)

\* ---------------------------------------------------------------------------
\* C18: when a RayGen invocation updates the accumulation it has generated
\* as many primary rays for its pixel as the samplesPerPixel constant of the
\* frame says
C18_SamplesPerPixelPrimaryRays ==
    [][ \A px \in Pixels :
          Writes(px) => thread[px].primaryRays = Camera.samplesPerPixel ]_vars

\* an invocation of the second frame that traced its path and has not yet
\* updated the accumulation
C18_Witness ==
    /\ Camera.frameIndex = 1
    /\ Camera.samplesPerPixel = 1
    /\ thread[1].pc = "read"
    /\ thread[1].primaryRays = 1
    /\ thread[1].sampleCount = F(1)

\* ---------------------------------------------------------------------------
\* C19: after the material was sampled the path ends at once, with the
\* radiance and the number of traced rays as they are, when pdf < EPSILON, or
\* the sample is not refracted and N.wi <= 0, or the updated throughput holds
\* a NaN or an Inf; a refracted sample with pdf >= EPSILON and a finite
\* updated throughput goes on whatever N.wi is; a path that ended goes to the
\* accumulation without tracing again.  (SampleBRDF of rt_scene never refracts.)
C19_TerminationAfterSample ==
    [][ /\ path.pc = "shade" =>
              \A e \in ShadeEvents :
                 path' = ShadeStep(variant, path, e) =>
                    LET refracted == variant = "mitsuba_rt" /\ e.s.isRefracted
                        updated ==
                            IF variant = "mitsuba_rt"
                            THEN VMul(path.throughput, e.s.weight)
                            ELSE VMul(path.throughput,
                                      VDivS(VScale(e.s.brdf, FAbs(e.s.NdotL)), e.s.pdf))
                        ends == \/ FLt(e.s.pdf, EPSILON)
                                \/ ~refracted /\ FLe(e.s.NdotL, F(0))
                                \/ AnyNan(updated) \/ AnyInf(updated)
                    IN  /\ ends => /\ path'.pc = "finish"
                                   /\ path'.radiance = path.radiance
                                   /\ path'.nTraced = path.nTraced
                        /\ (refracted /\ ~ends) => path'.pc = "roulette"
        /\ path.pc = "finish" => /\ path'.pc = "accumulate"
                                 /\ path'.nTraced = path.nTraced
      ]_vars

\* ---------------------------------------------------------------------------
\* C20: every intersection query adds exactly one term to the radiance: a miss
\* adds throughput * environment radiance and ends the path; a hit on an
\* instance flagged as emitter adds throughput * its emission; a hit on an
\* instance whose flag is clear adds nothing, whatever emission it stores.
\* Nothing else adds to the radiance, and a path that ended makes no query.
\* (mitsuba_rt never traces with a NaN or Inf throughput; the clause for the
\* clear flag is stated for a finite throughput.)
C20_OneContributionPerQuery ==
    [][ /\ path.pc = "trace" =>
              /\ variant = "mitsuba_rt" =>
                    ~AnyNan(path.throughput) /\ ~AnyInf(path.throughput)
              /\ \A e \in TraceEvents :
                    path' = TraceStep(path, e) =>
                       /\ path'.nTraced = path.nTraced + 1
                       /\ ~e.hit =>
                             /\ path'.radiance =
                                   VAdd(path.radiance, VMul(path.throughput, e.env))
                             /\ path'.pc = "finish"
                       /\ (e.hit /\ Instances[e.instance].isEmitter # 0) =>
                             path'.radiance =
                                VAdd(path.radiance,
                                     VMul(path.throughput, Instances[e.instance].emission))
                       /\ (/\ e.hit /\ Instances[e.instance].isEmitter = 0
                           /\ ~AnyNan(path.throughput) /\ ~AnyInf(path.throughput)) =>
                             path'.radiance = path.radiance
        /\ path.pc \in { "shade", "roulette" } =>
              /\ path'.radiance = path.radiance
              /\ path'.nTraced = path.nTraced
        /\ path.pc = "finish" =>
              /\ path'.nTraced = path.nTraced
              /\ path'.radiance = FinalRadiance(variant, path.radiance)
      ]_vars

\* a path of mitsuba_rt that hit the emitter, was scattered with weight 1/2
\* and left the scene: emission 1/5 plus half of the environment 2/5
C20_Witness ==
    /\ variant = "mitsuba_rt"
    /\ path.pc = "finish"
    /\ path.nTraced = 2
    /\ path.throughput = Splat(Q(1, 2))
    /\ path.radiance = Splat(Q(2, 5))

(***************************************************************************)
(* C21: Russian roulette is applied on a bounce only when its zero-based   *)
(* bounce index exceeds 3: up to index 3 the roulette part of the          *)
(* iteration only advances the loop.  On later bounces the path continues  *)
(* only if the uniform draw does not exceed p, the largest throughput      *)
(* channel, and p >= EPSILON, and the throughput of a continuing path is   *)
(* the old one divided by p.  Stated for every draw the step can see.      *)
(***************************************************************************)
C21_RouletteOutcome(e) ==
    LET r == RouletteStep(variant, path, e)
        p == MaxChannel(path.throughput)
    IN  IF path.bounce <= 3
        THEN r = NextBounce(path)
        ELSE r.bounce = path.bounce + 1
                 => /\ FLe(e.u, p)
                    /\ FGe(p, EPSILON)
                    /\ r.throughput = VDivS(path.throughput, p)

C21_RouletteAfterFourBounces ==
    path.pc = "roulette" => \A e \in RouletteEvents : C21_RouletteOutcome(e)

\* the same statement for the mitsuba_rt build alone
C21_RouletteAfterFourBouncesMitsuba ==
    variant = "mitsuba_rt" => C21_RouletteAfterFourBounces

(***************************************************************************)
(* C22 (mitsuba_rt): after the firefly step the largest throughput channel *)
(* is at most 100, and the step either leaves the throughput alone or      *)
(* multiplies all three channels by 100/max; hence whenever the path is at *)
(* an intersection, or about to trace the next ray, its largest throughput *)
(* channel is at most 100.                                                 *)
(***************************************************************************)
C22_ClampOutcome(e) ==
    LET r == ShadeStep(variant, path, e)
        t == VMul(path.throughput, e.s.weight)
        maxThroughput == MaxChannel(t)
    IN  r.pc = "roulette"
            => /\ FLe(MaxChannel(r.throughput), F(100))
               /\ r.throughput = IF FGt(maxThroughput, F(100))
                                 THEN VScale(t, FDiv(F(100), maxThroughput))
                                 ELSE t

C22_FireflyCeiling ==
    variant = "mitsuba_rt"
        => /\ path.pc = "shade" => \A e \in ShadeEvents : C22_ClampOutcome(e)
           /\ path.pc \in { "trace", "shade", "roulette" }
                  => FLe(MaxChannel(path.throughput), F(100))

\* a later intersection of a path whose throughput was cut to the ceiling
C22_Witness ==
    /\ variant = "mitsuba_rt"
    /\ path.pc = "shade"
    /\ path.bounce >= 1
    /\ path.throughput = V3(F(100), F(50), F(0))

(***************************************************************************)
(* C23: the radiance a RayGen invocation blends into the accumulation      *)
(* buffer holds no NaN and no Inf and lies in [0, 1000] per channel, and   *)
(* the stored colour of every pixel written since the textures were        *)
(* created is finite and within [0, 1000] per channel.                     *)
(***************************************************************************)
C23_InRange(c) ==
    \A i \in 1 .. 3 : isfinite(c[i]) /\ FLe(F(0), c[i]) /\ FLe(c[i], F(1000))

C23_AccumulationStaysFinite ==
    \A px \in Pixels :
        /\ thread[px].pc = "read" => C23_InRange(thread[px].radiance)
        /\ OutputTexture[px] # NoOutput => C23_InRange(AccumulationTexture[px].color)

\* the same statement for the mitsuba_rt build alone
C23_AccumulationStaysFiniteMitsuba ==
    variant = "mitsuba_rt" => C23_AccumulationStaysFinite

(***************************************************************************)
(* C24: SmoothDielectric_Sample returns the reflected direction with       *)
(* isRefracted = FALSE exactly when u.x < F or Refract fails, and the      *)
(* refracted direction with isRefracted = TRUE otherwise; over uniform u.x *)
(* the reflection is chosen with probability F, that is, for exactly the   *)
(* draws below F; and pdf = 1 on every branch.                             *)
(***************************************************************************)
C24_Reflected == ret.wi.kind = "reflect" /\ ~ret.isRefracted
C24_Refracted == ret.wi.kind = "refract" /\ ret.isRefracted
C24_CosI == Dielectric_CosI(call.cosTheta)
C24_Eta == Dielectric_Eta(call.intIOR, call.extIOR, call.cosTheta)

C24_ReflectionWithProbabilityF ==
    call.fn = "SmoothDielectric_Sample"
        => /\ C24_Reflected
                  <=> (FLt(call.u[1], FresnelDielectric(C24_CosI, C24_Eta))
                           \/ ~Refract(C24_CosI, C24_Eta))
           /\ ~C24_Reflected => C24_Refracted
           /\ C24_Reflected <=> FLt(call.u[1], FresnelDielectric(C24_CosI, C24_Eta))
           /\ ret.pdf = Pdf(F(1), F(1))

\* the branch structure alone, without the probability
C24_BranchStructure ==
    call.fn = "SmoothDielectric_Sample"
        => /\ C24_Reflected
                  <=> (FLt(call.u[1], FresnelDielectric(C24_CosI, C24_Eta))
                           \/ ~Refract(C24_CosI, C24_Eta))
           /\ ~C24_Reflected => C24_Refracted
           /\ ret.pdf = Pdf(F(1), F(1))

(***************************************************************************)
(* C25: on the refraction branch the throughput weight of the smooth       *)
(* dielectric is etaRatio squared, with etaRatio = intIOR/extIOR when wo   *)
(* is on the side the normal points to and extIOR/intIOR when it is on the *)
(* opposite side, and the rough variant applies the same factor for the    *)
(* same side (its weight is that factor times its microfacet term).        *)
(***************************************************************************)
C25_EtaRatio ==
    IF FGt(call.cosTheta, F(0)) THEN FDiv(call.intIOR, call.extIOR)
    ELSE FDiv(call.extIOR, call.intIOR)

C25_RefractionWeightIsEtaRatioSquared ==
    (call.fn = "SmoothDielectric_Sample" /\ ret.isRefracted /\ call.cosTheta # F(0))
        => /\ ret.throughputWeight = Splat(FMul(C25_EtaRatio, C25_EtaRatio))
           /\ RoughDielectric_RefractWeight(call.intIOR, call.extIOR, call.cosTheta, F(1))
                  = ret.throughputWeight

\* the same statement for wo on the side the normal points to
C25_EnteringWeightIsEtaRatioSquared ==
    (call.fn = "SmoothDielectric_Sample" /\ FGt(call.cosTheta, F(0)))
        => C25_RefractionWeightIsEtaRatioSquared

(***************************************************************************)
(* C26: for the incident cosine and the eta that SmoothDielectric_Sample   *)
(* passes to both, FresnelDielectric returns 1 exactly when Refract        *)
(* reports failure.                                                        *)
(***************************************************************************)
C26_FresnelAndRefractAgree ==
    call.fn = "SmoothDielectric_Sample"
        => ((FresnelDielectric(Dielectric_CosI(call.cosTheta),
                               Dielectric_Eta(call.intIOR, call.extIOR, call.cosTheta)) = F(1))
                <=> ~Refract(Dielectric_CosI(call.cosTheta),
                             Dielectric_Eta(call.intIOR, call.extIOR, call.cosTheta)))

\* the agreement when the two indices of refraction are equal
C26_AgreeForEqualIndices ==
    (call.fn = "SmoothDielectric_Sample" /\ call.intIOR = call.extIOR)
        => C26_FresnelAndRefractAgree

(***************************************************************************)
(* C27: at the Material_Sample call of the integrator the normal faces the *)
(* incoming ray, dot(normal, wo) >= 0, so the dielectric never takes its   *)
(* exiting branch there: the sample is the one of the entering side, with  *)
(* eta = extIOR / intIOR, also for a ray that travels inside the medium.   *)
(***************************************************************************)
C27_NormalFacesRay ==
    call.fn = "RayGen_Sample"
        => /\ FGe(call.cosTheta, F(0))
           /\ ~Dielectric_Exiting(call.cosTheta)
           /\ ret = SmoothDielectric_Choose(
                        call.intIOR, call.extIOR, call.cosTheta,
                        FDiv(call.extIOR, call.intIOR),
                        FresnelDielectric(call.cosTheta, FDiv(call.extIOR, call.intIOR)),
                        call.u)

\* a ray inside the glass reaches the surface from behind and is refracted
C27_Witness ==
    /\ call.fn = "RayGen_Sample"
    /\ FGt(call.dotND, F(0))
    /\ call.intIOR # call.extIOR
    /\ ret.isRefracted

(***************************************************************************)
(* C28: every value RandomFloat returns lies in the half-open interval     *)
(* [0, 1): it is never 1.0, whatever the state of the generator.           *)
(***************************************************************************)
C28_RandomFloatBelowOne ==
    call.fn = "RandomFloat" => FLe(F(0), ret.value) /\ FLt(ret.value, F(1))

\* the closed interval
C28_RandomFloatAtMostOne ==
    call.fn = "RandomFloat" => FLe(F(0), ret.value) /\ FLe(ret.value, F(1))

(***************************************************************************)
(* Scene loading (SpecFn).                                                 *)
(***************************************************************************)
C29_IndicesValid ==
    \A i \in DOMAIN ret.m_Instances :
        ret.m_Instances[i].materialIndex < Len(ret.m_Materials)

\* C29: after scene loading every instance's materialIndex is smaller than
\* the number of loaded materials, for every scene (named, unmatched, inline
\* and absent materials)
C29_MaterialIndexValid ==
    call.fn = "LoadSceneGeometry" => C29_IndicesValid

\* what the loader does guarantee: the indices are valid as soon as the
\* scene has one top-level material or its first shape appends an inline one
C29_MaterialIndexValidWithMaterials ==
    /\ call.fn = "LoadSceneGeometry"
    /\ \/ Len(call.scene.materials) > 0
       \/ /\ call.scene.shapes[1].hasInlineMaterial
          /\ call.scene.shapes[1].type = "obj" => call.scene.shapes[1].materialRef = ""
    => C29_IndicesValid

(***************************************************************************)
(* Material textures (SpecFn).                                             *)
(***************************************************************************)
C30_SamplerFallback ==
    /\ call.fn = "SampleMaterialTexture"
    /\ call.textureIndex < 0 \/ call.textureIndex >= 64
    => ret = White4
C30_ConstantsKept ==
    call.fn = "GetMaterialWithTextures" =>
        /\ call.mat.baseColorTexIdx < 0 => ret.mat.baseColor = call.mat.baseColor
        /\ call.mat.roughnessTexIdx < 0 => ret.mat.roughness = call.mat.roughness
        /\ call.mat.normalTexIdx < 0 => ret.normal = call.geometricNormal

\* C30: the texture sampler returns opaque white (1,1,1,1) for every index
\* below 0 or at or above 64, and a material whose base-color, roughness or
\* normal texture index is negative keeps its constant values and the
\* geometric normal
C30_TextureFallback == C30_SamplerFallback /\ C30_ConstantsKept

\* a lookup at index 64, one past the last slot, while the model's textures
\* hold no white texel
C30_Witness ==
    /\ call.fn = "SampleMaterialTexture"
    /\ call.textureIndex = 64
    /\ \A i \in DOMAIN call.textures : call.textures[i] # White4
    /\ ret = White4

\* a hit on a material without textures while slot 0 would change all three
C30_WitnessUntextured ==
    /\ call.fn = "GetMaterialWithTextures"
    /\ call.mat.baseColorTexIdx < 0 /\ call.mat.roughnessTexIdx < 0
    /\ call.mat.normalTexIdx < 0
    /\ ret.mat = call.mat /\ ret.normal = call.geometricNormal
    /\ GetMaterialWithTextures([ call.mat EXCEPT !.baseColorTexIdx = 0,
                                                 !.roughnessTexIdx = 0 ],
                               call.textures).baseColor # call.mat.baseColor
    /\ ApplyNormalMapFromTexture(call.geometricNormal, 0, call.textures)
           # call.geometricNormal

====
